---- MODULE Spec2Model ----
(***************************************************************************)
(* The incremental build core of cargo: the compilation context            *)
(* (src/cargo/ops/cargo_rustc/context.rs) and the fingerprint engine       *)
(* (src/cargo/ops/cargo_rustc/fingerprint.rs), driven through a sequence   *)
(* of builds over a build directory with a new and an old layout.          *)
(*                                                                         *)
(* Time: every write is stamped with the clock `now`; an edit of a source  *)
(* file advances the clock first, so an edit is stamped strictly later     *)
(* than every write made before it, and a compile that follows an edit     *)
(* with no other edit in between stamps its dep-info with the very mtime   *)
(* of that edit.                                                           *)
(*                                                                         *)
(* Hashing: SipHash is taken to be injective, a fingerprint is the value   *)
(* that is hashed.                                                         *)
(***************************************************************************)
EXTENDS Integers, Sequences, FiniteSets, TLC

\* ------------------------------------------------------------------ bounds

\* Number of builds a behaviour runs.
MaxBuilds == 3
\* Number of events from outside a behaviour sees: edits and deletions of
\* source files, a compiler upgrade, a change of the manifest, a failing
\* compile command, a cancellation.
MaxEvents == 2
\* Number of dependency edges of a graph the requirement walk is run on.
MaxEdges == 4
\* Number of calls of the git utilities in a behaviour.
MaxCalls == 4

\* ------------------------------------------------------- the package world

RustcVersions == {"rustc-a", "rustc-b"}

Absent == -1

ProfCompile == [env |-> "test", compile |-> TRUE,  test |-> FALSE, doc |-> FALSE, plugin |-> FALSE]
ProfTest    == [env |-> "test", compile |-> FALSE, test |-> TRUE,  doc |-> FALSE, plugin |-> FALSE]
ProfDoc     == [env |-> "doc",  compile |-> FALSE, test |-> FALSE, doc |-> TRUE,  plugin |-> FALSE]
ProfPlugin  == [env |-> "test", compile |-> TRUE,  test |-> FALSE, doc |-> FALSE, plugin |-> TRUE]
ProfRelease == [env |-> "release", compile |-> TRUE, test |-> FALSE, doc |-> FALSE, plugin |-> FALSE]
ProfTestDoc == [env |-> "test", compile |-> FALSE, test |-> TRUE,  doc |-> TRUE,  plugin |-> FALSE]

\* A target: its package, name, kind (lib or bin), crate types, profile.
BarTest == [pkg |-> "bar", name |-> "bar", lib |-> TRUE, dylib |-> FALSE, rlib |-> TRUE, profile |-> ProfTest]
BarLib  == [pkg |-> "bar", name |-> "bar", lib |-> TRUE, dylib |-> FALSE, rlib |-> TRUE, profile |-> ProfCompile]
FooLib  == [pkg |-> "foo", name |-> "foo", lib |-> TRUE, dylib |-> TRUE,  rlib |-> TRUE, profile |-> ProfCompile]
FooTest == [pkg |-> "foo", name |-> "foo", lib |-> TRUE, dylib |-> FALSE, rlib |-> TRUE, profile |-> ProfTest]
FooDoc  == [pkg |-> "foo", name |-> "foo", lib |-> TRUE, dylib |-> FALSE, rlib |-> TRUE, profile |-> ProfDoc]

NoTarget == [pkg |-> "", name |-> "", lib |-> FALSE, dylib |-> FALSE, rlib |-> FALSE, profile |-> ProfCompile]

Packages == {"bar", "foo"}

RootPkg == "foo"

\* The requirement walk of Context::prepare is checked on graphs of its own:
\* the packages of `graph`, whose targets and dependencies are drawn when a
\* behaviour of the walk starts.
VARIABLES
    graph,         \* the resolved graph walked: [deps, targets], package -> sequence
    requirements,  \* Context.requirements: <<package, target name>> -> PlatformRequirement
    visiting,      \* the HashSet of the running top-level walk
    stack,         \* the frames of build_requirements that have not returned
    roots,         \* the targets of the root package prepare() has yet to walk from
    entries        \* every entry into a pair so far: the pair, whether the target
                   \* is a plugin, the incoming requirement

wvars == <<graph, requirements, visiting, stack, roots, entries>>

\* The file-name functions of the Context are asked about one target: these
\* variables hold the question and the answer.
VARIABLES
    probe,    \* the Context asked
    subject,  \* the target asked about
    built,    \* the Kind the target is built for
    answer    \* what was asked and the result

nvars == <<probe, subject, built, answer>>

\* One function or work unit of the fingerprint engine runs step by step on
\* a build directory that other processes may change.
VARIABLES
    call      \* the running call: its operation, position, locals and result

uvars == <<call>>

\* The git utilities run on a remote repository, its local database and one
\* checkout of it.
VARIABLES
    git       \* the remote, the database, the checkout and the running operation

gvars == <<git>>

\* The targets a package declares, in manifest order.
get_targets(pkg) ==
    IF pkg = "bar" THEN <<BarTest, BarLib>>
    ELSE IF pkg = "foo" THEN <<FooLib, FooTest, FooDoc>>
    ELSE graph.targets[pkg]

\* Whether the manifest of a package lists build commands.
get_build(pkg) == IF pkg = "bar" THEN <<"make">> ELSE <<>>

\* The source files of a package, relative to its root.
SourceFiles(pkg) ==
    IF pkg = "bar" THEN {"src/lib.rs"} ELSE {"src/lib.rs", "src/tests.rs"}

SrcKeys == {<<p, f>> : p \in Packages, f \in {"src/lib.rs", "src/tests.rs"}}

AllSources == {k \in SrcKeys : k[2] \in SourceFiles(k[1])}

\* The manifest of a package, a file of its source tree too.
Manifest == "Cargo.toml"

Manifests == {<<p, Manifest>> : p \in Packages}

\* The input files rustc reads when it compiles a target (what --dep-info lists).
CompilerInputs(target) ==
    IF target.profile.test /\ target.pkg = "foo"
    THEN <<"src/lib.rs", "src/tests.rs">>
    ELSE <<"src/lib.rs">>

\* The crates the source of a target links against (extern crate); the
\* documentation of foo is generated from its own items alone.
ExternCrates(target) == IF target.pkg = "foo" /\ ~target.profile.doc THEN {"bar"} ELSE {}

\* The names targets are given where file names are compared as strings.
TargetNames == {"a", "test-a", "lib-a", "test-lib-a", "dep-lib-a", "uild"}

\* A string as the sequence of its characters.
Chars(s) ==
    CASE s = "" -> <<>>
      [] s = "-" -> <<"-">>
      [] s = "lib" -> <<"l", "i", "b">>
      [] s = "bin" -> <<"b", "i", "n">>
      [] s = "test-" -> <<"t", "e", "s", "t", "-">>
      [] s = "doc-" -> <<"d", "o", "c", "-">>
      [] s = "dep-" -> <<"d", "e", "p", "-">>
      [] s = "build" -> <<"b", "u", "i", "l", "d">>
      [] s = "foo" -> <<"f", "o", "o">>
      [] s = "bar" -> <<"b", "a", "r">>
      [] s = "a" -> <<"a">>
      [] s = "test-a" -> <<"t", "e", "s", "t", "-", "a">>
      [] s = "lib-a" -> <<"l", "i", "b", "-", "a">>
      [] s = "test-lib-a" -> <<"t", "e", "s", "t", "-", "l", "i", "b", "-", "a">>
      [] s = "dep-lib-a" -> <<"d", "e", "p", "-", "l", "i", "b", "-", "a">>
      [] s = "uild" -> <<"u", "i", "l", "d">>

\* format!: the arguments written one after the other, the string a file
\* name is on disk.
RECURSIVE format(_)
format(parts) == IF parts = <<>> THEN <<>> ELSE Chars(Head(parts)) \o format(Tail(parts))

\* ------------------------------------------------------ target predicates

is_lib(t) == t.lib
is_bin(t) == ~t.lib
is_dylib(t) == t.lib /\ t.dylib
is_rlib(t) == t.lib /\ t.rlib
file_stem(t) == t.name

\* ------------------------------------------------------------- context.rs

\* A faulty is_relevant_target: the env of the Context is not looked at.
is_relevant_target_compile(cx, target) == is_lib(target) /\ target.profile.compile

\* fn is_relevant_target
is_relevant_target(cx, target) ==
    /\ is_lib(target)
    /\ IF cx.env \in {"doc", "test"} THEN target.profile.compile
       ELSE IF cx.env = "doc-all" THEN target.profile.compile \/ target.profile.doc
       ELSE target.profile.env = cx.env

\* Iterator::find over a sequence: the first element satisfying the
\* predicate, as a sequence of length 0 or 1.
FirstRelevant(cx, ts) ==
    LET idx == {i \in 1..Len(ts) : is_relevant_target(cx, ts[i])}
    IN  IF idx = {} THEN <<>>
        ELSE <<ts[CHOOSE i \in idx : \A j \in idx : i <= j]>>

\* A faulty dep_targets: the lookup of the package in the resolved graph is
\* taken to fail, no dependency target is returned.
dep_targets_none(cx, pkg) == <<>>

\* fn dep_targets: for each direct dependency (resolve order) its first
\* relevant target; resolve.deps(pkg) is cx.resolve[pkg], a sequence of ids.
RECURSIVE DepTargetsOf(_, _)
DepTargetsOf(cx, deps) ==
    IF deps = <<>> THEN <<>>
    ELSE FirstRelevant(cx, get_targets(Head(deps))) \o DepTargetsOf(cx, Tail(deps))

dep_targets(cx, pkg) ==
    IF pkg \notin DOMAIN cx.resolve THEN <<>> ELSE DepTargetsOf(cx, cx.resolve[pkg])

\* fn dylib
dylib(cx, kind) == IF kind = "KindPlugin" THEN cx.host_dylib ELSE cx.target_dylib

\* A faulty target_filenames: the rlib is named before the dylib and a test
\* of a library is named as the library.
target_filenames_libs(cx, target) ==
    LET stem == file_stem(target) IN
    IF is_bin(target)
    THEN << <<stem, cx.target_exe>> >>
    ELSE (IF is_rlib(target) THEN << <<"lib", stem, ".rlib">> >> ELSE <<>>)
         \o (IF is_dylib(target)
             THEN LET pair == dylib(cx, IF target.profile.plugin THEN "KindPlugin" ELSE "KindTarget")
                  IN  << <<pair[1], stem, pair[2]>> >>
             ELSE <<>>)

\* fn target_filenames: a file name is the sequence of its parts. The value
\* is `ret`; the assert on its length is taken by the callers, for which an
\* empty `ret` is a panic.
target_filenames(cx, target) ==
    LET stem == file_stem(target) IN
    IF is_bin(target) \/ target.profile.test
    THEN << <<stem, cx.target_exe>> >>
    ELSE (IF is_dylib(target)
          THEN LET kind == IF target.profile.plugin THEN "KindPlugin" ELSE "KindTarget"
                   pair == dylib(cx, kind)
               IN  << <<pair[1], stem, pair[2]>> >>
          ELSE <<>>)
         \o (IF is_rlib(target) THEN << <<"lib", stem, ".rlib">> >> ELSE <<>>)

\* fn layout: the LayoutProxy of a kind (which Layout, and the primary flag).
layout(cx, kind) ==
    [lay |-> IF kind = "KindPlugin" THEN "host"
             ELSE IF cx.has_target THEN "target" ELSE "host",
     primary |-> cx.primary]

\* -------------------------------------------------------- layout (paths)

\* A path of the build directory: the Layout it belongs to, whether it is in
\* the old view, its area, the package directory and the file name in it.
Path(lay, old, area, dir, file) ==
    [lay |-> lay, old |-> old, area |-> area, dir |-> dir, file |-> file]

\* LayoutProxy::root / old_root joined with a file name
proxy_root(lp, old, file) ==
    Path(lp.lay, old, IF lp.primary THEN "root" ELSE "deps", "", file)

\* LayoutProxy::native / old_native
proxy_native(lp, old, pkg) == Path(lp.lay, old, "native", pkg, <<>>)

\* LayoutProxy::fingerprint / old_fingerprint joined with dirname and file
proxy_fingerprint(lp, old, pkg, file) == Path(lp.lay, old, "fingerprint", pkg, file)


\* ------------------------------------------------------------------ state

VARIABLES
    fs,       \* the build directory: path -> file, for the paths that exist
    src,      \* the source trees: <<package, file>> -> mtime, or Absent
    now,      \* the clock
    rustc,    \* the version string of the installed compiler
    resolve,  \* the resolved graph: package -> its direct dependencies
    phase,    \* "idle", "prepared" (preparation done, no job run) or "running"
    nbuild,   \* the number of builds started
    events,   \* the number of events from outside so far
    cx,       \* the Context of the current build
    prep,     \* job -> the Preparation the fingerprint engine returned
    jst,      \* job -> "wait", "fresh" (fresh work done), "dirty" (dirty work done), "failed"
    cur,      \* the job the scheduler runs, the work it runs and its next step
    ending,   \* how the last build ended, and what changed since it started
    prev      \* at the start of a build: `ending` and the compiler version of the one before

bvars == <<fs, src, now, rustc, resolve, phase, nbuild, events, cx, prep, jst, cur, ending, prev>>

vars == <<bvars, wvars, nvars, uvars, gvars>>

\* ------------------------------------------------------------ filesystem

File(content, mtime) == [kind |-> "file", content |-> content, mtime |-> mtime]

Dir == [kind |-> "dir", content |-> [tag |-> "dir"], mtime |-> 0]

exists(path) == path \in DOMAIN fs

join(dirpath, file) == [dirpath EXCEPT !.file = file]

\* fs::rename(src, dst) on the directory `f`: the entry moves, mtime kept.
Rename(f, from, to) ==
    [p \in (DOMAIN f \ {from}) \cup {to} |-> IF p = to THEN f[from] ELSE f[p]]

\* File::create(path).write_str(content)
WriteFile(f, path, content) ==
    [p \in DOMAIN f \cup {path} |-> IF p = path THEN File(content, now) ELSE f[p]]

\* fs::mkdir(path)
Mkdir(f, path) == [p \in DOMAIN f \cup {path} |-> IF p = path THEN Dir ELSE f[p]]

\* fs::stat(root.join(file)): the mtime of a source file, Absent if missing.
stat_source(pkg, file) ==
    IF <<pkg, file>> \in DOMAIN src THEN src[<<pkg, file>>] ELSE Absent

\* --------------------------------------------------------- fingerprint.rs

\* A faulty filename: the flavor of the profile is left out, the targets of
\* one name share their fingerprint and dep-info files.
filename_noflavor(target) ==
    <<"", IF is_lib(target) THEN "lib" ELSE "bin", "-", target.name>>

\* A faulty filename: the flavor is written after the kind.
filename_kindfirst(target) ==
    LET kind == IF is_lib(target) THEN "lib" ELSE "bin"
        flavor == IF target.profile.test THEN "test-"
                  ELSE IF target.profile.doc THEN "doc-"
                  ELSE ""
    IN  <<kind, "-", flavor, target.name>>

\* fn filename
filename(target) ==
    LET kind == IF is_lib(target) THEN "lib" ELSE "bin"
        flavor == IF target.profile.test THEN "test-"
                  ELSE IF target.profile.doc THEN "doc-"
                  ELSE ""
    IN  <<flavor, kind, "-", target.name>>

\* A faulty dirs: every package gets the fingerprint directory of the layout.
dirs_shared(c, pkg, kind) ==
    LET lp == layout(c, kind)
    IN  <<proxy_fingerprint(lp, TRUE, "", <<>>), proxy_fingerprint(lp, FALSE, "", <<>>)>>

\* fn dirs: the (old, new) fingerprint directory of a package
dirs(c, pkg, kind) ==
    LET lp == layout(c, kind)
    IN  <<proxy_fingerprint(lp, TRUE, pkg, <<>>), proxy_fingerprint(lp, FALSE, pkg, <<>>)>>

\* A faulty dep_info_loc: the old location is taken in the new directory.
dep_info_loc_new(c, pkg, target, kind) ==
    LET name == <<"dep-">> \o filename(target)
        new == proxy_fingerprint(layout(c, kind), FALSE, pkg, name)
    IN  <<new, new>>

\* fn dep_info_loc
dep_info_loc(c, pkg, target, kind) ==
    LET d == dirs(c, pkg, kind)
        name == <<"dep-">> \o filename(target)
    IN  <<join(d[1], name), join(d[2], name)>>

\* fn is_fresh: "true", "false", or "err" when the opened file cannot be read
\* as a string (File::open succeeds, read_to_string fails); a file that
\* cannot be opened ("locked") is as a missing one.
is_fresh(loc, new_fingerprint) ==
    IF ~exists(loc) THEN "false"
    ELSE IF fs[loc].kind = "locked" THEN "false"
    ELSE IF fs[loc].kind # "file" \/ fs[loc].content.tag = "bytes" THEN "err"
    ELSE IF fs[loc].content = new_fingerprint THEN "true" ELSE "false"

\* A faulty mk_fingerprint: the compiler version is not hashed.
mk_fingerprint_nover(c, data) == [tag |-> "fp", ver |-> "", data |-> data]

\* fn mk_fingerprint: the hash of (rustc_version, data), hex-encoded
mk_fingerprint(c, data) == [tag |-> "fp", ver |-> c.rustc_version, data |-> data]

\* A faulty calculate_target_fresh: an input as old as the dep-info is stale.
calculate_target_fresh_strict(pkg, dep_info) ==
    IF ~exists(dep_info) THEN "false"
    ELSE LET f == fs[dep_info] IN
         IF f.kind # "file" \/ f.content.tag # "dep-info" \/ f.content.line = "none"
         THEN "false"
         ELSE IF f.content.line = "nosep" THEN "internal"
         ELSE LET deps == f.content.inputs IN
              IF \A i \in 1..Len(deps) :
                    /\ stat_source(pkg, deps[i]) # Absent
                    /\ stat_source(pkg, deps[i]) < f.mtime
              THEN "true" ELSE "false"

\* A faulty calculate_target_fresh: a first line without ": " is a stale
\* target.
calculate_target_fresh_lenient(pkg, dep_info) ==
    IF ~exists(dep_info) THEN "false"
    ELSE LET f == fs[dep_info] IN
         IF f.kind # "file" \/ f.content.tag # "dep-info" \/ f.content.line = "none"
         THEN "false"
         ELSE IF f.content.line = "nosep" THEN "false"
         ELSE LET deps == f.content.inputs IN
              IF \A i \in 1..Len(deps) :
                    /\ stat_source(pkg, deps[i]) # Absent
                    /\ stat_source(pkg, deps[i]) <= f.mtime
              THEN "true" ELSE "false"

\* fn calculate_target_fresh: "true", "false", or the internal error of a
\* first line without ": "
calculate_target_fresh(pkg, dep_info) ==
    IF ~exists(dep_info) THEN "false"
    ELSE LET f == fs[dep_info] IN
         IF f.kind # "file" \/ f.content.tag # "dep-info" \/ f.content.line = "none"
         THEN "false"
         ELSE IF f.content.line = "nosep" THEN "internal"
         ELSE LET deps == f.content.inputs IN
              IF \A i \in 1..Len(deps) :
                    /\ stat_source(pkg, deps[i]) # Absent
                    /\ stat_source(pkg, deps[i]) <= f.mtime
              THEN "true" ELSE "false"

\* Source::fingerprint of a path source: a hash of the content of every file
\* of the package (a file's content is identified by its last edit).
source_fingerprint(pkg) ==
    <<stat_source(pkg, Manifest), stat_source(pkg, "src/lib.rs"), stat_source(pkg, "src/tests.rs")>>

\* fn calculate_pkg_fingerprint: the expect on the source of the package
\* panics, the Err of Source::fingerprint (the packages of c.broken) is
\* returned.
calculate_pkg_fingerprint(c, pkg) ==
    IF pkg \notin c.sources THEN [status |-> "panic", val |-> <<>>]
    ELSE IF pkg \in c.broken THEN [status |-> "err", val |-> <<>>]
    ELSE [status |-> "ok", val |-> source_fingerprint(pkg)]

\* fn calculate_build_cmd_fingerprint
calculate_build_cmd_fingerprint(c, pkg) == calculate_pkg_fingerprint(c, pkg)

\* The Preparation triple: the Freshness and the two work units, kept as
\* data (write_fingerprint writes `fingerprint` at `loc`, move_old renames
\* `pairs` in order); `noop` marks the two empty procs.
Preparation(fresh, loc, fingerprint, pairs, noop) ==
    [status |-> "ok", fresh |-> fresh, loc |-> loc, fingerprint |-> fingerprint,
     pairs |-> pairs, noop |-> noop]

NoPath == Path("", FALSE, "", "", <<>>)

NoFingerprint == [tag |-> "fp", ver |-> "", data |-> [target |-> NoTarget, srcfp |-> <<>>]]

\* A prepare_foo call that returned Err (or panicked): no Preparation.
Failed(status) ==
    [status |-> status, fresh |-> "Dirty", loc |-> NoPath, fingerprint |-> NoFingerprint,
     pairs |-> <<>>, noop |-> TRUE]

\* A faulty prepare: the freshness is not looked at.
prepare_fresh(fresh, loc, fingerprint, to_copy) ==
    [status |-> "ok", fresh |-> "Fresh", loc |-> loc, fingerprint |-> fingerprint,
     pairs |-> to_copy, noop |-> FALSE]

\* fn prepare
prepare(fresh, loc, fingerprint, to_copy) ==
    Preparation(IF fresh THEN "Fresh" ELSE "Dirty", loc, fingerprint, to_copy, FALSE)

\* Faulty pairs of the outputs: the sources are taken in the new layout.
output_pairs_new(c, target, kind) ==
    LET lp == layout(c, kind)
        names == target_filenames(c, target)
    IN  [i \in 1..Len(names) |-> <<proxy_root(lp, FALSE, names[i]), proxy_root(lp, FALSE, names[i])>>]

\* The (old, new) pairs of the outputs of a target
output_pairs(c, target, kind) ==
    LET lp == layout(c, kind)
        names == target_filenames(c, target)
    IN  [i \in 1..Len(names) |-> <<proxy_root(lp, TRUE, names[i]), proxy_root(lp, FALSE, names[i])>>]

\* A faulty prepare_target: a doc target is prepared as the other targets are.
prepare_target_nodoc(c, pkg, target, kind) ==
    LET d == dirs(c, pkg, kind)
        old_loc == join(d[1], filename(target))
        new_loc == join(d[2], filename(target))
        doc == FALSE
        di == dep_info_loc(c, pkg, target, kind)
        files == IF doc THEN "true" ELSE calculate_target_fresh(pkg, di[1])
        pkgfp == IF doc THEN calculate_pkg_fingerprint(c, pkg)
                 ELSE [status |-> "ok", val |-> <<>>]
        rustc_fingerprint == mk_fingerprint(c, [target |-> target, srcfp |-> pkgfp.val])
        is_rustc_fresh == is_fresh(old_loc, rustc_fingerprint)
        pairs == << <<old_loc, new_loc>> >>
                 \o (IF ~doc
                     THEN << <<di[1], di[2]>> >> \o output_pairs(c, target, kind)
                     ELSE <<>>)
    IN  IF files \notin {"true", "false"} THEN Failed(files)
        ELSE IF pkgfp.status # "ok" THEN Failed(pkgfp.status)
        ELSE IF is_rustc_fresh = "err" THEN Failed("err")
        ELSE IF Len(target_filenames(c, target)) = 0 /\ ~doc THEN Failed("panic")
        ELSE prepare(is_rustc_fresh = "true" /\ files = "true", new_loc,
                     rustc_fingerprint, pairs)

\* A faulty prepare_target: the fingerprint is looked for at the new location.
prepare_target_newloc(c, pkg, target, kind) ==
    LET d == dirs(c, pkg, kind)
        old_loc == join(d[1], filename(target))
        new_loc == join(d[2], filename(target))
        doc == target.profile.doc
        di == dep_info_loc(c, pkg, target, kind)
        files == IF doc THEN "true" ELSE calculate_target_fresh(pkg, di[1])
        pkgfp == IF doc THEN calculate_pkg_fingerprint(c, pkg)
                 ELSE [status |-> "ok", val |-> <<>>]
        rustc_fingerprint == mk_fingerprint(c, [target |-> target, srcfp |-> pkgfp.val])
        is_rustc_fresh == is_fresh(new_loc, rustc_fingerprint)
        pairs == << <<old_loc, new_loc>> >>
                 \o (IF ~target.profile.doc
                     THEN << <<di[1], di[2]>> >> \o output_pairs(c, target, kind)
                     ELSE <<>>)
    IN  IF files \notin {"true", "false"} THEN Failed(files)
        ELSE IF pkgfp.status # "ok" THEN Failed(pkgfp.status)
        ELSE IF is_rustc_fresh = "err" THEN Failed("err")
        ELSE IF Len(target_filenames(c, target)) = 0 /\ ~doc THEN Failed("panic")
        ELSE prepare(is_rustc_fresh = "true" /\ files = "true", new_loc,
                     rustc_fingerprint, pairs)

\* A faulty prepare_target: the inputs of the dep-info are also looked for in
\* the dependency packages, whose files make the target stale.
prepare_target_deps(c, pkg, target, kind) ==
    LET d == dirs(c, pkg, kind)
        old_loc == join(d[1], filename(target))
        new_loc == join(d[2], filename(target))
        doc == target.profile.doc
        di == dep_info_loc(c, pkg, target, kind)
        files == IF doc THEN "true" ELSE calculate_target_fresh(pkg, di[1])
        deps == IF pkg \in DOMAIN c.resolve THEN c.resolve[pkg] ELSE <<>>
        depfiles == \A i \in 1..Len(deps) : calculate_target_fresh(deps[i], di[1]) = "true"
        pkgfp == IF doc THEN calculate_pkg_fingerprint(c, pkg)
                 ELSE [status |-> "ok", val |-> <<>>]
        rustc_fingerprint == mk_fingerprint(c, [target |-> target, srcfp |-> pkgfp.val])
        is_rustc_fresh == is_fresh(old_loc, rustc_fingerprint)
        pairs == << <<old_loc, new_loc>> >>
                 \o (IF ~target.profile.doc
                     THEN << <<di[1], di[2]>> >> \o output_pairs(c, target, kind)
                     ELSE <<>>)
    IN  IF files \notin {"true", "false"} THEN Failed(files)
        ELSE IF pkgfp.status # "ok" THEN Failed(pkgfp.status)
        ELSE IF is_rustc_fresh = "err" THEN Failed("err")
        ELSE IF Len(target_filenames(c, target)) = 0 /\ ~doc THEN Failed("panic")
        ELSE prepare(is_rustc_fresh = "true" /\ files = "true" /\ depfiles, new_loc,
                     rustc_fingerprint, pairs)

\* fn prepare_target
prepare_target(c, pkg, target, kind) ==
    LET d == dirs(c, pkg, kind)
        old_loc == join(d[1], filename(target))
        new_loc == join(d[2], filename(target))
        doc == target.profile.doc
        di == dep_info_loc(c, pkg, target, kind)
        files == IF doc THEN "true" ELSE calculate_target_fresh(pkg, di[1])
        pkgfp == IF doc THEN calculate_pkg_fingerprint(c, pkg)
                 ELSE [status |-> "ok", val |-> <<>>]
        rustc_fingerprint == mk_fingerprint(c, [target |-> target, srcfp |-> pkgfp.val])
        is_rustc_fresh == is_fresh(old_loc, rustc_fingerprint)
        pairs == << <<old_loc, new_loc>> >>
                 \o (IF ~target.profile.doc
                     THEN << <<di[1], di[2]>> >> \o output_pairs(c, target, kind)
                     ELSE <<>>)
    IN  IF files \notin {"true", "false"} THEN Failed(files)
        ELSE IF pkgfp.status # "ok" THEN Failed(pkgfp.status)
        ELSE IF is_rustc_fresh = "err" THEN Failed("err")
        ELSE IF Len(target_filenames(c, target)) = 0 /\ ~doc THEN Failed("panic")
        ELSE prepare(is_rustc_fresh = "true" /\ files = "true", new_loc,
                     rustc_fingerprint, pairs)

\* A faulty prepare_build_cmd: the native directory is promoted from the new
\* layout.
prepare_build_cmd_newnative(c, pkg) ==
    LET d == dirs(c, pkg, "KindTarget")
        pkgfp == calculate_build_cmd_fingerprint(c, pkg)
        new_fingerprint == mk_fingerprint(c, [target |-> NoTarget, srcfp |-> pkgfp.val])
        lp == layout(c, "KindTarget")
    IN  IF Len(get_build(pkg)) = 0
        THEN Preparation("Fresh", NoPath, NoFingerprint, <<>>, TRUE)
        ELSE prepare(is_fresh(join(d[1], <<"build">>), new_fingerprint) = "true",
                     join(d[2], <<"build">>), new_fingerprint,
                     << <<join(d[1], <<"build">>), join(d[2], <<"build">>)>>,
                        <<proxy_native(lp, FALSE, pkg), proxy_native(lp, FALSE, pkg)>> >>)

\* A faulty prepare_build_cmd: the shortcut for an empty build list is
\* missing.
prepare_build_cmd_noshortcut(c, pkg) ==
    LET d == dirs(c, pkg, "KindTarget")
        pkgfp == calculate_build_cmd_fingerprint(c, pkg)
        new_fingerprint == mk_fingerprint(c, [target |-> NoTarget, srcfp |-> pkgfp.val])
        lp == layout(c, "KindTarget")
    IN  prepare(is_fresh(join(d[1], <<"build">>), new_fingerprint) = "true",
                join(d[2], <<"build">>), new_fingerprint,
                << <<join(d[1], <<"build">>), join(d[2], <<"build">>)>>,
                   <<proxy_native(lp, TRUE, pkg), proxy_native(lp, FALSE, pkg)>> >>)

\* A faulty prepare_build_cmd: the Kind follows the requirement of the
\* package, a package required as a plugin is looked for in the host layout.
prepare_build_cmd_byreq(c, pkg) ==
    LET key == <<pkg, get_targets(pkg)[1].name>>
        kind == IF key \in DOMAIN requirements /\ requirements[key] = "Plugin"
                THEN "KindPlugin" ELSE "KindTarget"
        d == dirs(c, pkg, kind)
        old_loc == join(d[1], <<"build">>)
        new_loc == join(d[2], <<"build">>)
        pkgfp == calculate_build_cmd_fingerprint(c, pkg)
        new_fingerprint == mk_fingerprint(c, [target |-> NoTarget, srcfp |-> pkgfp.val])
        fresh == is_fresh(old_loc, new_fingerprint)
        lp == layout(c, kind)
        pairs == << <<old_loc, new_loc>>,
                    <<proxy_native(lp, TRUE, pkg), proxy_native(lp, FALSE, pkg)>> >>
    IN  IF Len(get_build(pkg)) = 0
        THEN Preparation("Fresh", NoPath, NoFingerprint, <<>>, TRUE)
        ELSE IF pkgfp.status # "ok" THEN Failed(pkgfp.status)
        ELSE IF fresh = "err" THEN Failed("err")
        ELSE prepare(fresh = "true", new_loc, new_fingerprint, pairs)

\* fn prepare_build_cmd
prepare_build_cmd(c, pkg) ==
    LET kind == "KindTarget"
        d == dirs(c, pkg, kind)
        old_loc == join(d[1], <<"build">>)
        new_loc == join(d[2], <<"build">>)
        pkgfp == calculate_build_cmd_fingerprint(c, pkg)
        new_fingerprint == mk_fingerprint(c, [target |-> NoTarget, srcfp |-> pkgfp.val])
        fresh == is_fresh(old_loc, new_fingerprint)
        lp == layout(c, kind)
        pairs == << <<old_loc, new_loc>>,
                    <<proxy_native(lp, TRUE, pkg), proxy_native(lp, FALSE, pkg)>> >>
    IN  IF Len(get_build(pkg)) = 0
        THEN Preparation("Fresh", NoPath, NoFingerprint, <<>>, TRUE)
        ELSE IF pkgfp.status # "ok" THEN Failed(pkgfp.status)
        ELSE IF fresh = "err" THEN Failed("err")
        ELSE prepare(fresh = "true", new_loc, new_fingerprint, pairs)

\* fn prepare_init: both work units mkdir the new fingerprint directory
prepare_init(c, pkg, kind) == dirs(c, pkg, kind)[2]


\* ------------------------------------------------- the driver (one build)

\* Context::new: the probe results of the installed compiler; no cross
\* target is configured, so host_dylib is a clone of target_dylib.
NewContext(version, resolved) ==
    [env |-> "test", rustc_version |-> version, primary |-> FALSE, has_target |-> FALSE,
     host_dylib |-> <<"lib", ".so">>, target_dylib |-> <<"lib", ".so">>, target_exe |-> "",
     resolve |-> resolved, sources |-> Packages, broken |-> {}]

\* Context::filename_parts: what rustc --print-file-name prints for a target
\* triple, as <<dylib pair, exe suffix>>; None is the host.
filename_parts(triple) ==
    IF triple = "x86_64-w64-mingw32" THEN << <<"", ".dll">>, ".exe" >>
    ELSE << <<"lib", ".so">>, "" >>

\* Context::new with config.target() = Some(triple): the target pair and the
\* exe suffix are probed for the triple, the host pair for the host.
CrossContext(triple, version, resolved) ==
    [env |-> "test", rustc_version |-> version, primary |-> FALSE, has_target |-> TRUE,
     host_dylib |-> filename_parts("None")[1], target_dylib |-> filename_parts(triple)[1],
     target_exe |-> filename_parts(triple)[2],
     resolve |-> resolved, sources |-> Packages, broken |-> {}]

\* Context::primary: the root package is compiled with the primary flag set.
CxFor(pkg) == [cx EXCEPT !.primary = (pkg = RootPkg)]

Range(seq) == {seq[i] : i \in 1..Len(seq)}

\* The order in which the driver compiles the packages of the graph: the
\* dependencies, then the root package.
PackageOrder == cx.resolve[RootPkg] \o <<RootPkg>>

\* The targets the driver compiles, in manifest order: every target of the
\* root package, the relevant (library) targets of a dependency.
BuildTargets(pkg) ==
    SelectSeq(get_targets(pkg), LAMBDA t : pkg = RootPkg \/ is_relevant_target(cx, t))

InitJob(pkg) == [kind |-> "init", pkg |-> pkg, target |-> NoTarget]
BuildJob(pkg) == [kind |-> "build", pkg |-> pkg, target |-> NoTarget]
TargetJob(t) == [kind |-> "target", pkg |-> t.pkg, target |-> t]

NoJob == [kind |-> "none", pkg |-> "", target |-> NoTarget]

\* The work units of one package, in the order the driver enqueues them.
PackageJobs(pkg) ==
    <<InitJob(pkg), BuildJob(pkg)>>
    \o [i \in 1..Len(BuildTargets(pkg)) |-> TargetJob(BuildTargets(pkg)[i])]

RECURSIVE JobsOf(_)
JobsOf(pkgs) == IF pkgs = <<>> THEN <<>> ELSE PackageJobs(Head(pkgs)) \o JobsOf(Tail(pkgs))

\* The queue of the build.
JobOrder == JobsOf(PackageOrder)

Jobs == Range(JobOrder)

\* The kind a target is built for (no plugin in the graph: the target platform).
KindOf(job) == "KindTarget"

\* What a job waits for: a package's directory before its build script, the
\* build script before its targets, and the dependency targets the
\* requirement walk reaches before a target.
JobDeps(job) ==
    IF job.kind = "init" THEN {}
    ELSE IF job.kind = "build" THEN {InitJob(job.pkg)}
    ELSE {BuildJob(job.pkg)} \cup {TargetJob(t) : t \in Range(dep_targets(cx, job.pkg))}

\* The fingerprint engine's answer for a job.
PrepareJob(job) ==
    IF job.kind = "init"
    THEN Preparation("Fresh", prepare_init(CxFor(job.pkg), job.pkg, KindOf(job)),
                     NoFingerprint, <<>>, FALSE)
    ELSE IF job.kind = "build" THEN prepare_build_cmd(CxFor(job.pkg), job.pkg)
    ELSE prepare_target(CxFor(job.pkg), job.pkg, job.target, KindOf(job))

\* A job runs its dirty work when it is Dirty itself or when a job it waits
\* for ran its dirty work in this build; its fresh work otherwise. `st` is
\* the status of the jobs.
Effective(st, job) ==
    IF prep[job].fresh = "Dirty" \/ \E d \in JobDeps(job) : st[d] = "dirty"
    THEN "Dirty" ELSE "Fresh"

\* A job can start when the jobs it waits for are done.
Ready(st, job) ==
    /\ st[job] = "wait"
    /\ \A d \in JobDeps(job) : d \in DOMAIN st /\ st[d] \in {"fresh", "dirty"}

NoCur == [job |-> NoJob, mode |-> "", step |-> 0]

\* The scheduler (one worker): the first job of the queue that can start,
\* with the work its freshness selects.
PickJob(st) ==
    LET idx == {i \in 1..Len(JobOrder) : Ready(st, JobOrder[i])}
        job == JobOrder[CHOOSE i \in idx : \A j \in idx : i <= j]
    IN  IF idx = {} THEN NoCur ELSE [job |-> job, mode |-> Effective(st, job), step |-> 1]

Running(kind, mode) ==
    /\ phase = "running"
    /\ cur.job.kind = kind
    /\ cur.mode = mode

\* Where a build stopped: the job, the work it was running, its next step and
\* what the fingerprint engine had said of it.
Stop ==
    [job |-> cur.job, mode |-> cur.mode, step |-> cur.step,
     fresh |-> IF cur.job = NoJob THEN "" ELSE prep[cur.job].fresh]

NoStop == [job |-> NoJob, mode |-> "", step |-> 0, fresh |-> ""]

\* The layouts at the start of a build: what the previous build left in the
\* new view is the old view, and the new view is empty.
Rotate(f) ==
    LET kept == {p \in DOMAIN f : ~p.old}
    IN  [q \in {[p EXCEPT !.old = TRUE] : p \in kept} |-> f[[q EXCEPT !.old = FALSE]]]

\* ----------------------------------------------------------------- Init

\* No build has run.
InitBuild ==
    /\ fs = Rotate(<<>>)
    /\ src = [k \in AllSources \cup Manifests |-> 0]
    /\ now = 0
    /\ rustc = "rustc-a"
    /\ resolve = [foo |-> <<"bar">>, bar |-> <<>>]
    /\ phase = "idle"
    /\ nbuild = 0
    /\ events = 0
    /\ cx = NewContext("rustc-a", [foo |-> <<"bar">>, bar |-> <<>>])
    /\ prep = [j \in {} |-> Failed("err")]
    /\ jst = [j \in {} |-> "wait"]
    /\ cur = NoCur
    /\ ending = [how |-> "none", changed |-> {}, stop |-> NoStop]
    /\ prev = [how |-> "none", changed |-> {}, stop |-> NoStop, rustc_version |-> "rustc-a"]

\* No walk runs: the graph of the builds (foo, bar) has no plugin, every
\* target is required for the target platform.
NoWalk ==
    /\ graph = [deps |-> <<>>, targets |-> <<>>]
    /\ requirements = <<>>
    /\ visiting = {}
    /\ stack = <<>>
    /\ roots = <<>>
    /\ entries = {}

\* Nothing is asked.
NoAnswer == [op |-> "none", status |-> "ok", names |-> <<>>, pairs |-> <<>>]

NoQuery ==
    /\ probe = NewContext("rustc-a", <<>>)
    /\ subject = NoTarget
    /\ built = "KindTarget"
    /\ answer = NoAnswer

\* No call runs.
NoCall ==
    [op |-> "none", target |-> NoTarget, pc |-> "done", run |-> 0, status |-> "ok",
     verdict |-> "", unit |-> Failed("none"),
     line |-> [tag |-> "dep-info", line |-> "none", inputs |-> <<>>],
     mtime |-> 0, i |-> 0, gone |-> 0, before |-> <<>>, after |-> <<>>, read |-> <<>>]

\* No git operation runs; nothing was fetched yet.
NoGit ==
    [reachable |-> TRUE, tip |-> "r1", db |-> "absent", dbrevs |-> {},
     co |-> "absent", head |-> "none", corevs |-> {}, subs |-> "none",
     op |-> "none", pc |-> "idle", rev |-> "none", was |-> "", path |-> "", status |-> "ok",
     calls |-> 0]

Init == InitBuild /\ NoWalk /\ NoQuery /\ call = NoCall /\ git = NoGit

\* ------------------------------------------------------ the environment

\* Something happens between two builds.
Event(what) ==
    /\ phase = "idle"
    /\ events < MaxEvents
    /\ events' = events + 1
    /\ ending' = [ending EXCEPT !.changed = @ \cup {what}]

\* An editor writes a source file.
Edit(k) ==
    /\ Event(k)
    /\ now' = now + 1
    /\ src' = [src EXCEPT ![k] = now + 1]
    /\ UNCHANGED <<fs, rustc, resolve, phase, nbuild, cx, prep, jst, cur, prev>>
    /\ UNCHANGED <<wvars, nvars, uvars, gvars>>

\* A source file is deleted.
Delete(k) ==
    /\ Event(k)
    /\ src[k] # Absent
    /\ src' = [src EXCEPT ![k] = Absent]
    /\ UNCHANGED <<fs, now, rustc, resolve, phase, nbuild, cx, prep, jst, cur, prev>>
    /\ UNCHANGED <<wvars, nvars, uvars, gvars>>

\* A newer compiler is installed.
Upgrade ==
    /\ Event(<<"", "rustc">>)
    /\ rustc = "rustc-a"
    /\ rustc' = "rustc-b"
    /\ UNCHANGED <<fs, src, now, resolve, phase, nbuild, cx, prep, jst, cur, prev>>
    /\ UNCHANGED <<wvars, nvars, uvars, gvars>>

\* The dependency on bar is removed from the manifest of the root package.
RemoveDep ==
    /\ Event(<<RootPkg, Manifest>>)
    /\ resolve[RootPkg] # <<>>
    /\ resolve' = [foo |-> <<>>]
    /\ now' = now + 1
    /\ src' = [src EXCEPT ![<<RootPkg, Manifest>>] = now + 1]
    /\ UNCHANGED <<fs, rustc, phase, nbuild, cx, prep, jst, cur, prev>>
    /\ UNCHANGED <<wvars, nvars, uvars, gvars>>

\* ------------------------------------------------------------ the build

\* The driver starts a build: layouts, Context::new, then the fingerprint
\* engine prepares every job before any of them is dispatched.
StartBuild ==
    /\ phase = "idle"
    /\ nbuild < MaxBuilds
    /\ nbuild' = nbuild + 1
    /\ fs' = Rotate(fs)
    /\ cx' = NewContext(rustc, resolve)
    /\ UNCHANGED <<src, now, rustc, resolve, events>>
    /\ prep' = [j \in Jobs' |-> PrepareJob(j)']
    /\ jst' = [j \in Jobs' |-> "wait"]
    /\ cur' = NoCur
    /\ prev' = [how |-> ending.how, changed |-> ending.changed, stop |-> ending.stop,
                rustc_version |-> cx.rustc_version]
    /\ ending' = [how |-> "running", changed |-> {}, stop |-> NoStop]
    /\ phase' = "prepared"
    /\ UNCHANGED <<wvars, nvars, uvars, gvars>>

\* The scheduler takes over.
Dispatch ==
    /\ phase = "prepared"
    /\ phase' = "running"
    /\ cur' = PickJob(jst)
    /\ UNCHANGED <<fs, src, now, rustc, resolve, nbuild, events, cx, prep, jst, ending, prev>>
    /\ UNCHANGED <<wvars, nvars, uvars, gvars>>

\* The build stops at a failed job.
FailJob ==
    /\ jst' = [jst EXCEPT ![cur.job] = "failed"]
    /\ cur' = NoCur
    /\ phase' = "idle"
    /\ ending' = [ending EXCEPT !.how = "failed", !.stop = Stop]

\* A job is done; the scheduler picks the next one.
EndJob(status) ==
    /\ jst' = [jst EXCEPT ![cur.job] = status]
    /\ cur' = PickJob([jst EXCEPT ![cur.job] = status])
    /\ UNCHANGED <<phase, ending>>

\* prepare_init's work unit: mkdir of the new fingerprint directory.
RunInit ==
    /\ Running("init", "Fresh")
    /\ IF exists(prep[cur.job].loc)
       THEN FailJob /\ UNCHANGED fs
       ELSE fs' = Mkdir(fs, prep[cur.job].loc) /\ EndJob("fresh")
    /\ UNCHANGED <<src, now, rustc, resolve, nbuild, events, cx, prep, prev>>
    /\ UNCHANGED <<wvars, nvars, uvars, gvars>>

\* The two empty procs of a package without build commands.
RunNoop ==
    /\ phase = "running"
    /\ cur.job.kind = "build"
    /\ prep[cur.job].noop
    /\ EndJob(IF cur.mode = "Fresh" THEN "fresh" ELSE "dirty")
    /\ UNCHANGED <<fs, src, now, rustc, resolve, nbuild, events, cx, prep, prev>>
    /\ UNCHANGED <<wvars, nvars, uvars, gvars>>

\* move_old: one fs::rename of the pair list; try! stops at the first error.
Promote ==
    /\ \/ Running("build", "Fresh")
       \/ Running("target", "Fresh")
    /\ ~prep[cur.job].noop
    /\ LET pairs == prep[cur.job].pairs
           pair == pairs[cur.step]
       IN  IF ~exists(pair[1])
           THEN FailJob /\ UNCHANGED fs
           ELSE /\ fs' = Rename(fs, pair[1], pair[2])
                /\ IF cur.step = Len(pairs)
                   THEN EndJob("fresh")
                   ELSE /\ cur' = [cur EXCEPT !.step = @ + 1]
                        /\ UNCHANGED <<jst, phase, ending>>
    /\ UNCHANGED <<src, now, rustc, resolve, nbuild, events, cx, prep, prev>>
    /\ UNCHANGED <<wvars, nvars, uvars, gvars>>

\* The artifact rustc writes for a target: what it was compiled from.
Artifact(t) ==
    [tag |-> "artifact", target |-> t,
     inputs |-> [i \in 1..Len(CompilerInputs(t)) |-> stat_source(t.pkg, CompilerInputs(t)[i])]]

DepInfo(t) == [tag |-> "dep-info", line |-> "ok", inputs |-> CompilerInputs(t)]

\* The outputs of a dependency crate, where a dependent looks for them.
CrateFound(name) ==
    \E p \in DOMAIN fs : ~p.old /\ p.area = "deps" /\ fs[p].kind = "file"
                         /\ fs[p].content.tag = "artifact" /\ fs[p].content.target.pkg = name

RECURSIVE WriteAll(_, _, _)
WriteAll(f, paths, content) ==
    IF paths = <<>> THEN f
    ELSE WriteAll([p \in DOMAIN f \cup {Head(paths)} |->
                      IF p = Head(paths) THEN File(content, now) ELSE f[p]],
                  Tail(paths), content)

\* Whether rustc can compile the target: its sources are there and so is
\* every crate they link against.
Compiles(t) ==
    /\ \A i \in 1..Len(CompilerInputs(t)) : stat_source(t.pkg, CompilerInputs(t)[i]) # Absent
    /\ \A n \in ExternCrates(t) : CrateFound(n)

\* The compile command of a target succeeds: rustc writes the outputs and,
\* for a non-doc target, the dep-info file.
CompileOk ==
    /\ Running("target", "Dirty")
    /\ cur.step = 1
    /\ Compiles(cur.job.target)
    /\ LET t == cur.job.target
           c == CxFor(t.pkg)
           outs == output_pairs(c, t, KindOf(cur.job))
           di == dep_info_loc(c, t.pkg, t, KindOf(cur.job))
       IN  fs' = IF t.profile.doc THEN fs
                 ELSE WriteFile(WriteAll(fs, [i \in 1..Len(outs) |-> outs[i][2]], Artifact(t)),
                                di[2], DepInfo(t))
    /\ cur' = [cur EXCEPT !.step = 2]
    /\ UNCHANGED <<src, now, rustc, resolve, phase, nbuild, events, cx, prep, jst, ending, prev>>
    /\ UNCHANGED <<wvars, nvars, uvars, gvars>>

\* A faulty scheduler: write_fingerprint has run before the compile command
\* that fails.
CompileErrorAfterFingerprint ==
    /\ phase = "running" /\ cur.job.kind = "target" /\ cur.mode = "Dirty"
    /\ cur.step = 1
    /\ ~Compiles(cur.job.target)
    /\ fs' = WriteFile(fs, prep[cur.job].loc, prep[cur.job].fingerprint)
    /\ FailJob
    /\ UNCHANGED <<src, now, rustc, resolve, nbuild, events, cx, prep, prev>>
    /\ UNCHANGED <<wvars, nvars, uvars, gvars>>

\* The compile command of a target fails: a source file or a crate it links
\* against is not there.
CompileError ==
    /\ Running("target", "Dirty")
    /\ cur.step = 1
    /\ ~Compiles(cur.job.target)
    /\ FailJob
    /\ UNCHANGED <<fs, src, now, rustc, resolve, nbuild, events, cx, prep, prev>>
    /\ UNCHANGED <<wvars, nvars, uvars, gvars>>

\* The compile command of a target crashes.
CompileCrash ==
    /\ Running("target", "Dirty")
    /\ cur.step = 1
    /\ events < MaxEvents
    /\ events' = events + 1
    /\ FailJob
    /\ UNCHANGED <<fs, src, now, rustc, resolve, nbuild, cx, prep, prev>>
    /\ UNCHANGED <<wvars, nvars, uvars, gvars>>

\* The build commands of a package run and fill its native directory.
BuildCmdOk ==
    /\ Running("build", "Dirty")
    /\ ~prep[cur.job].noop
    /\ cur.step = 1
    /\ fs' = Mkdir(fs, proxy_native(layout(CxFor(cur.job.pkg), "KindTarget"), FALSE, cur.job.pkg))
    /\ cur' = [cur EXCEPT !.step = 2]
    /\ UNCHANGED <<src, now, rustc, resolve, phase, nbuild, events, cx, prep, jst, ending, prev>>
    /\ UNCHANGED <<wvars, nvars, uvars, gvars>>

\* write_fingerprint, after the command of the dirty work succeeded.
WriteFingerprint ==
    /\ \/ Running("build", "Dirty")
       \/ Running("target", "Dirty")
    /\ ~prep[cur.job].noop
    /\ cur.step = 2
    /\ fs' = WriteFile(fs, prep[cur.job].loc, prep[cur.job].fingerprint)
    /\ EndJob("dirty")
    /\ UNCHANGED <<src, now, rustc, resolve, nbuild, events, cx, prep, prev>>
    /\ UNCHANGED <<wvars, nvars, uvars, gvars>>

\* Every job is done: the build succeeded.
Finish ==
    /\ phase = "running"
    /\ \A j \in DOMAIN jst : jst[j] \in {"fresh", "dirty"}
    /\ phase' = "idle"
    /\ ending' = [ending EXCEPT !.how = "ok"]
    /\ UNCHANGED <<fs, src, now, rustc, resolve, nbuild, events, cx, prep, jst, cur, prev>>
    /\ UNCHANGED <<wvars, nvars, uvars, gvars>>

\* The build is cancelled between two filesystem operations.
Cancel ==
    /\ phase = "running"
    /\ cur.job # NoJob
    /\ events < MaxEvents
    /\ events' = events + 1
    /\ phase' = "idle"
    /\ cur' = NoCur
    /\ ending' = [ending EXCEPT !.how = "cancelled", !.stop = Stop]
    /\ UNCHANGED <<fs, src, now, rustc, resolve, nbuild, cx, prep, jst, prev>>
    /\ UNCHANGED <<wvars, nvars, uvars, gvars>>

Next ==
    \/ \E k \in AllSources : Edit(k)
    \/ \E k \in AllSources : Delete(k)
    \/ Upgrade
    \/ RemoveDep
    \/ StartBuild
    \/ Dispatch
    \/ RunInit
    \/ RunNoop
    \/ Promote
    \/ CompileOk
    \/ CompileError
    \/ CompileCrash
    \/ BuildCmdOk
    \/ WriteFingerprint
    \/ Finish
    \/ Cancel

Spec == Init /\ [][Next]_vars

\* ---------------------------------------------------- the requirement walk

\* The packages of the graphs walked, in the order the resolver yields them;
\* prepare() is called on the first.
WalkPackages == <<"a", "b", "c", "d">>

WalkRoot == "a"

\* The targets of a package of a walked graph: a library named after the
\* package, a plugin or not; the root package may also have a binary and the
\* test-profile target of its library.
WalkLib(p, plugin) ==
    [pkg |-> p, name |-> p, lib |-> TRUE, dylib |-> plugin, rlib |-> ~plugin,
     profile |-> IF plugin THEN ProfPlugin ELSE ProfCompile]

WalkBin(p) ==
    [pkg |-> p, name |-> "main", lib |-> FALSE, dylib |-> FALSE, rlib |-> FALSE,
     profile |-> ProfCompile]

WalkTest(p) ==
    [pkg |-> p, name |-> p, lib |-> TRUE, dylib |-> FALSE, rlib |-> TRUE, profile |-> ProfTest]

\* The packages reachable from the packages S along the edges E.
RECURSIVE ReachFrom(_, _)
ReachFrom(E, S) ==
    LET T == S \cup {e[2] : e \in {x \in E : x[1] \in S}}
    IN  IF T = S THEN S ELSE ReachFrom(E, T)

\* The resolved graph with the dependency edges E, the packages `plugins`
\* having a plugin library, the root having a binary and a test target or not.
Graph(E, plugins, binroot) ==
    [deps |-> [p \in Range(WalkPackages) |->
                  SelectSeq(WalkPackages, LAMBDA q : <<p, q>> \in E)],
     targets |-> [p \in Range(WalkPackages) |->
                  IF p = WalkRoot /\ binroot
                  THEN <<WalkBin(p), WalkLib(p, p \in plugins), WalkTest(p)>>
                  ELSE <<WalkLib(p, p \in plugins)>>]]

\* The Context the walk runs in.
WalkCx == NewContext("rustc-a", graph.deps)

\* A faulty combine: the value stored first is kept.
combine_first(self, other) == self

\* fn PlatformRequirement::combine
combine(self, other) ==
    IF self = "Target" /\ other = "Target" THEN "Target"
    ELSE IF self = "Plugin" /\ other = "Plugin" THEN "Plugin"
    ELSE "PluginAndTarget"

\* A faulty get_requirement: a pair that is not in the map is a plugin's.
get_requirement_plugin(pkg, target) ==
    IF <<pkg, target.name>> \in DOMAIN requirements
    THEN requirements[<<pkg, target.name>>]
    ELSE "Plugin"

\* fn get_requirement
get_requirement(pkg, target) ==
    IF <<pkg, target.name>> \in DOMAIN requirements
    THEN requirements[<<pkg, target.name>>]
    ELSE "Target"

\* fn prepare, before its loop: any graph of at most MaxEdges edges, all
\* leaving packages the root reaches; the targets whose profile is_compile
\* are the ones to walk from.
WalkInit ==
    /\ InitBuild
    /\ \E E \in SUBSET (Range(WalkPackages) \X Range(WalkPackages)) :
       \E plugins \in SUBSET Range(WalkPackages) :
       \E binroot \in BOOLEAN :
          /\ Cardinality(E) <= MaxEdges
          /\ \A e \in E : e[1] \in ReachFrom(E, {WalkRoot})
          /\ plugins \subseteq ReachFrom(E, {WalkRoot})
          /\ graph = Graph(E, plugins, binroot)
    /\ requirements = <<>>
    /\ visiting = {}
    /\ stack = <<>>
    /\ roots = SelectSeq(graph.targets[WalkRoot], LAMBDA t : t.profile.compile)
    /\ entries = {}
    /\ NoQuery
    /\ call = NoCall
    /\ git = NoGit

\* fn build_requirements, past the guard: the pair is recorded with the
\* effective requirement, and the loop over dep_targets starts.
build_requirements(pkg, target, incoming, seen, frames) ==
    LET key == <<pkg, target.name>>
        req == IF target.profile.plugin THEN "Plugin" ELSE incoming
    IN  /\ visiting' = seen \cup {pkg}
        /\ requirements' =
              [k \in DOMAIN requirements \cup {key} |->
                  IF k # key THEN requirements[k]
                  ELSE IF key \in DOMAIN requirements THEN combine(requirements[key], req)
                  ELSE req]
        /\ entries' = entries \cup {[key |-> key, plugin |-> target.profile.plugin,
                                      incoming |-> incoming]}
        /\ stack' = Append(frames, [pkg |-> pkg, target |-> target, req |-> req, next |-> 1])

\* The frame on top of the stack, and the stack with its loop advanced.
Top == stack[Len(stack)]

Advanced == [stack EXCEPT ![Len(stack)].next = @ + 1]

\* fn prepare, one turn of its loop: a walk from a target of the root
\* package, with requirement Target and a new visiting set.
WalkFrom ==
    /\ stack = <<>>
    /\ roots # <<>>
    /\ build_requirements(WalkRoot, Head(roots), "Target", {}, <<>>)
    /\ roots' = Tail(roots)
    /\ UNCHANGED <<graph, bvars, nvars, uvars, gvars>>

\* build_requirements calls itself on the next dependency target, whose
\* package is not being visited.
Descend ==
    /\ stack # <<>>
    /\ Top.next <= Len(dep_targets(WalkCx, Top.pkg))
    /\ LET dep == dep_targets(WalkCx, Top.pkg)[Top.next]
       IN  /\ dep.pkg \notin visiting
           /\ build_requirements(dep.pkg, dep, Top.req, visiting, Advanced)
    /\ UNCHANGED <<graph, roots, bvars, nvars, uvars, gvars>>

\* build_requirements calls itself on a dependency target whose package is
\* being visited: the call returns at once.
CycleGuard ==
    /\ stack # <<>>
    /\ Top.next <= Len(dep_targets(WalkCx, Top.pkg))
    /\ dep_targets(WalkCx, Top.pkg)[Top.next].pkg \in visiting
    /\ stack' = Advanced
    /\ UNCHANGED <<graph, requirements, visiting, roots, entries, bvars, nvars, uvars, gvars>>

\* A faulty return of build_requirements: the package stays in the visiting
\* set.
ReturnVisiting ==
    /\ stack # <<>>
    /\ Top.next > Len(dep_targets(WalkCx, Top.pkg))
    /\ stack' = SubSeq(stack, 1, Len(stack) - 1)
    /\ UNCHANGED <<graph, requirements, visiting, roots, entries, bvars, nvars, uvars, gvars>>

\* build_requirements returns: the package is no longer being visited.
Return ==
    /\ stack # <<>>
    /\ Top.next > Len(dep_targets(WalkCx, Top.pkg))
    /\ visiting' = visiting \ {Top.pkg}
    /\ stack' = SubSeq(stack, 1, Len(stack) - 1)
    /\ UNCHANGED <<graph, requirements, roots, entries, bvars, nvars, uvars, gvars>>

WalkNext ==
    \/ WalkFrom
    \/ Descend
    \/ CycleGuard
    \/ Return

WalkSpec == WalkInit /\ [][WalkNext]_vars

\* The walk runs on one thread to its end: it does not stop half-way.
WalkFair == WalkSpec /\ WF_vars(WalkNext)

\* prepare() has returned.
Prepared == stack = <<>> /\ roots = <<>>

\* ------------------------------------------- the files a call may find

\* A file that exists and that File::open refuses (no permission to read).
Locked == [kind |-> "locked", content |-> [tag |-> "locked"], mtime |-> 0]

\* The states a fingerprint file is found in: missing, written by this
\* compiler for these sources, written by another compiler, a directory, not
\* to be opened, not UTF-8.
FpStates == {"absent", "good", "stale", "dir", "locked", "bytes"}

\* The fingerprint of `data` as mk_fingerprint writes it for a fingerprint
\* file in state `st`.
FpEntry(st, c, data) ==
    IF st = "good" THEN File(mk_fingerprint(c, data), 1)
    ELSE IF st = "stale" THEN File(mk_fingerprint([c EXCEPT !.rustc_version = "rustc-0"], data), 1)
    ELSE IF st = "dir" THEN Dir
    ELSE IF st = "locked" THEN Locked
    ELSE File([tag |-> "bytes"], 1)

\* The directory `f` with `entry` at `path`.
Put(f, path, entry) == [p \in DOMAIN f \cup {path} |-> IF p = path THEN entry ELSE f[p]]

\* The entries of a set of <<path, entry>> pairs as a directory.
Entries(S) == [p \in {e[1] : e \in S} |-> (CHOOSE e \in S : e[1] = p)[2]]

\* ------------------------------------------------- the names of the outputs

\* The target triples a build is configured with: none, one whose file names
\* are the host's, one whose file names differ.
Triples == {"None", "arm-unknown-linux-gnueabihf", "x86_64-w64-mingw32"}

\* The resolved graphs a Context is made with: one that knows no package,
\* the graph of the builds, one whose dependency is no package of the set,
\* one in which foo depends on bar and then on itself.
Resolves ==
    {<<>>, [foo |-> <<"bar">>, bar |-> <<>>], [foo |-> <<"ghost">>],
     [foo |-> <<"bar", "foo">>, bar |-> <<>>]}

\* The envs a Context is made with: the three is_relevant_target names and
\* one it does not name.
Envs == {"test", "doc", "doc-all", "release"}

\* The Contexts asked: each triple and resolved graph, with and without the
\* sources of the packages, for the root package (primary) and for a
\* dependency; and, without a triple, with each env.
Probes ==
    {[c EXCEPT !.primary = pr, !.sources = srcs] :
        c \in {IF t = "None" THEN NewContext("rustc-a", r)
               ELSE CrossContext(t, "rustc-a", r) : t \in Triples, r \in Resolves},
        pr \in BOOLEAN, srcs \in {Packages, {}}}
    \cup {[NewContext("rustc-a", r) EXCEPT !.env = e] : e \in Envs, r \in Resolves}

\* The targets asked about: binaries and libraries of package foo, with each
\* set of crate types and each profile.
Subjects ==
    {[pkg |-> "foo", name |-> "foo", lib |-> l, dylib |-> d, rlib |-> r, profile |-> pf] :
        l \in BOOLEAN, d \in BOOLEAN, r \in BOOLEAN,
        pf \in {ProfCompile, ProfTest, ProfDoc, ProfPlugin, ProfRelease, ProfTestDoc}}

\* The targets whose file names are compared: binaries and libraries of foo
\* under each name and flavor.
NamedSubjects ==
    {[pkg |-> "foo", name |-> n, lib |-> l, dylib |-> FALSE, rlib |-> l, profile |-> pf] :
        n \in TargetNames, l \in BOOLEAN, pf \in {ProfCompile, ProfTest, ProfDoc, ProfTestDoc}}

Kinds == {"KindPlugin", "KindTarget"}

\* The Contexts prepare_build_cmd is asked in with a build directory of an
\* earlier build: with and without a target layout, the Source of bar
\* fingerprinting or failing to.
BuildProbes ==
    {[c EXCEPT !.broken = b] :
        c \in {NewContext("rustc-a", [foo |-> <<"bar">>, bar |-> <<>>]),
               CrossContext("arm-unknown-linux-gnueabihf", "rustc-a",
                            [foo |-> <<"bar">>, bar |-> <<>>])},
        b \in {{}, {"bar"}}}

\* The old build fingerprint file of bar in a Layout.
OldBuildFile(lay) == Path(lay, TRUE, "fingerprint", "bar", <<"build">>)

\* The build directory an earlier build of bar left to the Context `c`, the
\* sources of bar being then as InitBuild has them: the build fingerprint
\* file of the layout of KindTarget in state `st`, and, where there is a
\* target layout, the one of the host layout in state `host`.
BuildFound(c, st, host) ==
    LET data == [target |-> NoTarget, srcfp |-> <<0, 0, Absent>>] IN
    Entries(
      (IF st = "absent" THEN {}
       ELSE {<<OldBuildFile(IF c.has_target THEN "target" ELSE "host"), FpEntry(st, c, data)>>})
      \cup (IF c.has_target /\ host # "absent"
            THEN {<<OldBuildFile("host"), FpEntry(host, c, data)>>}
            ELSE {}))

\* A question is asked in an empty build directory, about a target of foo,
\* named foo or as the targets whose file names are compared;
\* or prepare_build_cmd is to be asked about bar in the directory an earlier
\* build left, a file of bar edited since or not, bar required for the
\* target platform or as a plugin.
QueryInit ==
    /\ now = 0
    /\ rustc = "rustc-a"
    /\ resolve = [foo |-> <<"bar">>, bar |-> <<>>]
    /\ phase = "idle"
    /\ nbuild = 0
    /\ events = 0
    /\ cx = NewContext("rustc-a", [foo |-> <<"bar">>, bar |-> <<>>])
    /\ prep = [j \in {} |-> Failed("err")]
    /\ jst = [j \in {} |-> "wait"]
    /\ cur = NoCur
    /\ ending = [how |-> "none", changed |-> {}, stop |-> NoStop]
    /\ prev = [how |-> "none", changed |-> {}, stop |-> NoStop, rustc_version |-> "rustc-a"]
    /\ graph = [deps |-> <<>>, targets |-> <<>>]
    /\ visiting = {}
    /\ stack = <<>>
    /\ roots = <<>>
    /\ entries = {}
    /\ answer = NoAnswer
    /\ call = NoCall
    /\ git = NoGit
    /\ \/ /\ fs = Rotate(<<>>)
          /\ src = [k \in AllSources \cup Manifests |-> 0]
          /\ requirements = <<>>
          /\ probe \in Probes
          /\ subject \in {t \in Subjects : t.lib \/ (~t.dylib /\ ~t.rlib)}
          /\ built \in Kinds
       \/ /\ fs = Rotate(<<>>)
          /\ src = [k \in AllSources \cup Manifests |-> 0]
          /\ requirements = <<>>
          /\ probe = NewContext("rustc-a", [foo |-> <<"bar">>, bar |-> <<>>])
          /\ subject \in NamedSubjects
          /\ built = "KindTarget"
       \/ /\ probe \in BuildProbes
          /\ \E st \in FpStates : \E host \in {"absent", "good"} :
                fs = BuildFound(probe, st, host)
          /\ \E edited \in {"none", Manifest, "src/lib.rs"} :
                src = [k \in AllSources \cup Manifests |->
                          IF k = <<"bar", edited>> THEN 1 ELSE 0]
          /\ \E req \in {"Target", "Plugin"} :
                requirements = [k \in {<<"bar", "bar">>} |-> req]
          /\ subject = BarLib
          /\ built = "KindTarget"

\* cx.target_filenames(target) is called; the assert stops the program when
\* `ret` is empty.
TargetFilenames ==
    /\ answer.op = "none"
    /\ LET ret == target_filenames(probe, subject)
       IN  answer' = [op |-> "target_filenames",
                      status |-> IF Len(ret) > 0 THEN "ok" ELSE "panic",
                      names |-> ret, pairs |-> <<>>]
    /\ UNCHANGED <<probe, subject, built, bvars, wvars, uvars, gvars>>

\* cx.dylib(kind) is called.
Dylib ==
    /\ answer.op = "none"
    /\ answer' = [op |-> "dylib", status |-> "ok", names |-> <<dylib(probe, built)>>,
                  pairs |-> <<>>]
    /\ UNCHANGED <<probe, subject, built, bvars, wvars, uvars, gvars>>

\* prepare_target(cx, pkg, target, kind) is called in an empty build
\* directory.
PrepareTarget ==
    /\ answer.op = "none"
    /\ LET p == prepare_target(probe, subject.pkg, subject, built)
       IN  answer' = [op |-> "prepare_target", status |-> p.status, names |-> <<>>,
                      pairs |-> p.pairs]
    /\ UNCHANGED <<probe, subject, built, bvars, wvars, uvars, gvars>>

\* The packages of the PackageSet.
PackageSet == Packages \cup DOMAIN graph.targets

\* fn get_package: find(..).expect("Should have found package")
get_package(c, id) == [status |-> IF id \in PackageSet THEN "ok" ELSE "panic", pkg |-> id]

\* cx.dep_targets(pkg) is called; get_package stops the program for an id
\* without a package.
DepTargets ==
    /\ answer.op = "none"
    /\ LET deps == IF subject.pkg \in DOMAIN probe.resolve
                   THEN probe.resolve[subject.pkg] ELSE <<>>
           lost == \E i \in 1..Len(deps) : get_package(probe, deps[i]).status = "panic"
       IN  answer' = [op |-> "dep_targets", status |-> IF lost THEN "panic" ELSE "ok",
                      names |-> IF lost THEN <<>> ELSE dep_targets(probe, subject.pkg),
                      pairs |-> <<>>]
    /\ UNCHANGED <<probe, subject, built, bvars, wvars, uvars, gvars>>

\* cx.primary() is called.
Primary ==
    /\ answer.op = "none"
    /\ probe' = [probe EXCEPT !.primary = TRUE]
    /\ answer' = [op |-> "primary", status |-> "ok", names |-> <<>>, pairs |-> <<>>]
    /\ UNCHANGED <<subject, built, bvars, wvars, uvars, gvars>>

\* cx.layout(kind) is called.
Layout ==
    /\ answer.op = "none"
    /\ answer' = [op |-> "layout", status |-> "ok", names |-> <<layout(probe, built)>>,
                  pairs |-> <<>>]
    /\ UNCHANGED <<probe, subject, built, bvars, wvars, uvars, gvars>>

\* cx.get_requirement(pkg, target) is called.
GetRequirement ==
    /\ answer.op = "none"
    /\ answer' = [op |-> "get_requirement", status |-> "ok",
                  names |-> <<get_requirement(subject.pkg, subject)>>, pairs |-> <<>>]
    /\ UNCHANGED <<probe, subject, built, bvars, wvars, uvars, gvars>>

\* prepare_build_cmd(cx, pkg) is called in an empty build directory.
PrepareBuildCmd ==
    /\ answer.op = "none"
    /\ LET p == prepare_build_cmd(probe, "bar")
       IN  answer' = [op |-> "prepare_build_cmd", status |-> p.status, names |-> <<>>,
                      pairs |-> p.pairs, prep |-> p]
    /\ UNCHANGED <<probe, subject, built, bvars, wvars, uvars, gvars>>

\* prepare_init(cx, pkg, kind) is called.
PrepareInit ==
    /\ answer.op = "none"
    /\ answer' = [op |-> "prepare_init", status |-> "ok",
                  names |-> <<prepare_init(probe, subject.pkg, built)>>, pairs |-> <<>>]
    /\ UNCHANGED <<probe, subject, built, bvars, wvars, uvars, gvars>>

\* cx.is_relevant_target(target) is called.
IsRelevantTarget ==
    /\ answer.op = "none"
    /\ answer' = [op |-> "is_relevant_target", status |-> "ok",
                  names |-> <<is_relevant_target(probe, subject)>>, pairs |-> <<>>]
    /\ UNCHANGED <<probe, subject, built, bvars, wvars, uvars, gvars>>

\* The names of the files of the fingerprint directory of the package are
\* formatted for a target: its fingerprint file (filename), its dep-info file
\* (dep_info_loc) and the build fingerprint file (prepare_build_cmd).
Filename ==
    /\ answer.op = "none"
    /\ answer' = [op |-> "filename", status |-> "ok",
                  names |-> <<format(filename(subject)),
                              format(dep_info_loc(probe, subject.pkg, subject, built)[2].file),
                              format(<<"build">>)>>,
                  pairs |-> <<>>]
    /\ UNCHANGED <<probe, subject, built, bvars, wvars, uvars, gvars>>

QueryNext ==
    \/ TargetFilenames \/ Dylib \/ PrepareTarget
    \/ DepTargets \/ Primary \/ Layout \/ GetRequirement \/ PrepareBuildCmd \/ PrepareInit
    \/ IsRelevantTarget \/ Filename

QuerySpec == QueryInit /\ [][QueryNext]_vars

\* ------------------------------------- the fingerprint engine, step by step

\* The calls are made for the library and the doc target of the root package
\* and for the build commands of bar, with the Context of InitBuild.
UnitCx(pkg) == CxFor(pkg)
LibOldFp == join(dirs(UnitCx("foo"), "foo", "KindTarget")[1], filename(FooLib))
LibNewFp == join(dirs(UnitCx("foo"), "foo", "KindTarget")[2], filename(FooLib))
LibOldDep == dep_info_loc(UnitCx("foo"), "foo", FooLib, "KindTarget")[1]
LibNewDep == dep_info_loc(UnitCx("foo"), "foo", FooLib, "KindTarget")[2]
DocOldFp == join(dirs(UnitCx("foo"), "foo", "KindTarget")[1], filename(FooDoc))
BuildOldFp == join(dirs(UnitCx("bar"), "bar", "KindTarget")[1], <<"build">>)
NewFpDir == dirs(UnitCx("foo"), "foo", "KindTarget")[2]
\* The fingerprint directory of the layout, parent of the package's.
FingerprintRoot == proxy_fingerprint(layout(UnitCx("foo"), "KindTarget"), FALSE, "", <<>>)

\* The states a dep-info file is found in: missing, as rustc writes it,
\* with a first line without ": ", without a line, not to be opened.
DepStates == {"absent", "ok", "nosep", "empty", "locked"}

\* The states of the new fingerprint directory of the package: missing with
\* its parent, missing, empty, holding files.
NewDirStates == {"noparent", "absent", "empty", "junk"}

DepEntry(st) ==
    IF st = "ok" THEN File(DepInfo(FooLib), 1)
    ELSE IF st = "nosep" THEN File([tag |-> "dep-info", line |-> "nosep", inputs |-> <<>>], 1)
    ELSE IF st = "empty" THEN File([tag |-> "dep-info", line |-> "none", inputs |-> <<>>], 1)
    ELSE Locked

\* The build directory found: the outputs of the last build are in the old
\* layout, the fingerprint and dep-info files in the states drawn.
FoundFs(fp, dep, newdir, srcfp) ==
    LET lp == layout(UnitCx("foo"), "KindTarget")
        outs == output_pairs(UnitCx("foo"), FooLib, "KindTarget")
    IN  Entries(
          {<<outs[i][1], File(Artifact(FooLib), 1)>> : i \in 1..Len(outs)}
          \cup {<<proxy_native(layout(UnitCx("bar"), "KindTarget"), TRUE, "bar"), Dir>>}
          \cup (IF fp = "absent" THEN {}
                ELSE {<<LibOldFp, FpEntry(fp, UnitCx("foo"), [target |-> FooLib, srcfp |-> <<>>])>>,
                      <<DocOldFp, FpEntry(fp, UnitCx("foo"), [target |-> FooDoc, srcfp |-> srcfp])>>,
                      <<BuildOldFp, FpEntry(fp, UnitCx("bar"),
                                            [target |-> NoTarget, srcfp |-> source_fingerprint("bar")])>>})
          \cup (IF dep = "absent" THEN {} ELSE {<<LibOldDep, DepEntry(dep)>>})
          \cup (IF newdir = "noparent" THEN {} ELSE {<<FingerprintRoot, Dir>>})
          \cup (IF newdir \in {"empty", "junk"} THEN {<<NewFpDir, Dir>>} ELSE {})
          \cup (IF newdir = "junk"
                THEN {<<LibNewFp, FpEntry("good", UnitCx("foo"), [target |-> FooLib, srcfp |-> <<>>])>>,
                      <<LibNewDep, File(DepInfo(FooLib), 2)>>}
                ELSE {}))

UnitInit ==
    /\ cx = NewContext("rustc-a", [foo |-> <<"bar">>, bar |-> <<>>])
    /\ \E m \in {Absent, 1, 2} :
          src = [k \in AllSources \cup Manifests |-> IF k = <<"foo", "src/lib.rs">> THEN m ELSE 0]
    /\ \E fp \in FpStates : \E dep \in DepStates : \E newdir \in NewDirStates :
          fs = FoundFs(fp, dep, newdir, source_fingerprint("foo"))
    /\ now = 2
    /\ rustc = "rustc-a"
    /\ resolve = [foo |-> <<"bar">>, bar |-> <<>>]
    /\ phase = "idle"
    /\ nbuild = 0
    /\ events = 0
    /\ prep = [j \in {} |-> Failed("err")]
    /\ jst = [j \in {} |-> "wait"]
    /\ cur = NoCur
    /\ ending = [how |-> "none", changed |-> {}, stop |-> NoStop]
    /\ prev = [how |-> "none", changed |-> {}, stop |-> NoStop, rustc_version |-> "rustc-a"]
    /\ NoWalk
    /\ NoQuery
    /\ call = NoCall
    /\ git = NoGit

\* The variables a call leaves alone besides the build directory and the
\* sources.
rest == <<now, rustc, resolve, phase, nbuild, events, cx, prep, jst, cur, ending, prev,
          wvars, nvars, gvars>>

\* prepare_target(cx, pkg, target, kind) is called.
CallPrepareTarget ==
    /\ call.op = "none"
    /\ \E t \in {FooLib, FooDoc} :
          call' = [call EXCEPT !.op = "prepare_target", !.target = t, !.before = fs,
                               !.unit = prepare_target(UnitCx("foo"), "foo", t, "KindTarget"),
                               !.status = prepare_target(UnitCx("foo"), "foo", t, "KindTarget").status]
    /\ UNCHANGED <<fs, src, rest>>

\* prepare_build_cmd(cx, pkg) is called.
CallPrepareBuildCmd ==
    /\ call.op = "none"
    /\ call' = [call EXCEPT !.op = "prepare_build_cmd", !.before = fs,
                            !.unit = prepare_build_cmd(UnitCx("bar"), "bar"),
                            !.status = prepare_build_cmd(UnitCx("bar"), "bar").status]
    /\ UNCHANGED <<fs, src, rest>>

\* A call of calculate_target_fresh ends with a value or an error.
Returns(c, verdict) ==
    [c EXCEPT !.pc = "done", !.verdict = verdict,
              !.status = IF verdict \in {"true", "false"} THEN "ok" ELSE verdict]

\* calculate_target_fresh, line 198: the dep-info file is opened and its
\* first line read; no file, no line: false.
CtfReadLine ==
    /\ call.op = "none"
    /\ LET c == [call EXCEPT !.op = "calculate_target_fresh", !.target = FooLib, !.before = fs]
       IN  IF ~exists(LibOldDep) THEN call' = Returns(c, "false")
           ELSE LET f == fs[LibOldDep] IN
                IF f.kind # "file" \/ f.content.tag # "dep-info" \/ f.content.line = "none"
                THEN call' = Returns(c, "false")
                ELSE call' = [c EXCEPT !.pc = "stat", !.line = f.content]
    /\ UNCHANGED <<fs, src, rest>>

\* calculate_target_fresh, lines 203 to 208: the dep-info file is stat'ed
\* (try!), then the line is split at ": " (require).
CtfStat ==
    /\ call.op = "calculate_target_fresh"
    /\ call.pc = "stat"
    /\ call' = IF ~exists(LibOldDep) THEN Returns(call, "err")
               ELSE IF call.line.line = "nosep" THEN Returns(call, "internal")
               ELSE [call EXCEPT !.pc = "scan", !.mtime = fs[LibOldDep].mtime, !.i = 1]
    /\ UNCHANGED <<fs, src, rest>>

\* calculate_target_fresh, lines 210 to 221: one input file is stat'ed.
CtfScan ==
    /\ call.op = "calculate_target_fresh"
    /\ call.pc = "scan"
    /\ call' = IF call.i > Len(call.line.inputs) THEN Returns(call, "true")
               ELSE LET m == stat_source("foo", call.line.inputs[call.i])
                    IN  IF m = Absent \/ m > call.mtime THEN Returns(call, "false")
                        ELSE [call EXCEPT !.i = @ + 1]
    /\ UNCHANGED <<fs, src, rest>>

\* Another process removes the dep-info file or an input file while
\* calculate_target_fresh runs.
Unlink ==
    /\ call.op = "calculate_target_fresh"
    /\ call.pc # "done"
    /\ call.gone = 0
    /\ call' = [call EXCEPT !.gone = 1]
    /\ \/ /\ exists(LibOldDep)
          /\ fs' = [p \in DOMAIN fs \ {LibOldDep} |-> fs[p]]
          /\ UNCHANGED src
       \/ /\ stat_source("foo", "src/lib.rs") # Absent
          /\ src' = [src EXCEPT ![<<"foo", "src/lib.rs">>] = Absent]
          /\ UNCHANGED fs
    /\ UNCHANGED rest

\* A work unit of the Preparation of the library is started: write_fingerprint
\* or move_old of prepare (lines 143 to 153), or one of the two units of
\* prepare_init (line 133 or 134).
StartUnit ==
    /\ call.op = "none"
    /\ LET p == prepare_target(UnitCx("foo"), "foo", FooLib, "KindTarget")
       IN  /\ p.status = "ok"
           /\ \E op \in {"write_fingerprint", "move_old", "init"} :
                 call' = [call EXCEPT !.op = op, !.target = FooLib, !.pc = "run", !.run = 1,
                                      !.i = 1, !.unit = p, !.before = fs]
    /\ UNCHANGED <<fs, src, rest>>

\* The unit ends: with an error, or well.
UnitEnds(status, f) ==
    call' = [call EXCEPT !.pc = "done", !.status = status,
                         !.after = IF call.run = 1 THEN f ELSE @]

\* write_fingerprint, File::create(&loc): the file is created, or truncated,
\* in the directory of the package.
WfCreate ==
    /\ call.op = "write_fingerprint"
    /\ call.pc = "run"
    /\ IF ~exists(NewFpDir)
       THEN UnitEnds("err", fs) /\ UNCHANGED fs
       ELSE /\ fs' = Put(fs, call.unit.loc, File([tag |-> "empty"], now))
            /\ call' = [call EXCEPT !.pc = "write"]
    /\ UNCHANGED <<src, rest>>

\* write_fingerprint, write_str(fingerprint): the content is written.
WfWrite ==
    /\ call.op = "write_fingerprint"
    /\ call.pc = "write"
    /\ fs' = WriteFile(fs, call.unit.loc, call.unit.fingerprint)
    /\ UnitEnds("ok", fs')
    /\ UNCHANGED <<src, rest>>

\* A faulty move_old: the renames made are undone when one fails.
MoveOldRollback ==
    /\ call.op = "move_old"
    /\ call.pc = "run"
    /\ LET pair == call.unit.pairs[call.i]
       IN  IF ~exists(pair[1]) \/ (pair[2].area = "fingerprint" /\ ~exists(NewFpDir))
           THEN UnitEnds("err", call.before) /\ fs' = call.before
           ELSE /\ fs' = Rename(fs, pair[1], pair[2])
                /\ IF call.i = Len(call.unit.pairs)
                   THEN UnitEnds("ok", fs')
                   ELSE call' = [call EXCEPT !.i = @ + 1]
    /\ UNCHANGED <<src, rest>>

\* move_old: one fs::rename of the loop; try! ends the unit at the first
\* error.
MoveOld ==
    /\ call.op = "move_old"
    /\ call.pc = "run"
    /\ LET pair == call.unit.pairs[call.i]
       IN  IF ~exists(pair[1]) \/ (pair[2].area = "fingerprint" /\ ~exists(NewFpDir))
           THEN UnitEnds("err", fs) /\ UNCHANGED fs
           ELSE /\ fs' = Rename(fs, pair[1], pair[2])
                /\ IF call.i = Len(call.unit.pairs)
                   THEN UnitEnds("ok", fs')
                   ELSE call' = [call EXCEPT !.i = @ + 1]
    /\ UNCHANGED <<src, rest>>

\* A unit of prepare_init: fs::mkdir(&new, UserRWX), the mkdir of the system.
InitUnit ==
    /\ call.op = "init"
    /\ call.pc = "run"
    /\ LET new == prepare_init(UnitCx("foo"), "foo", "KindTarget")
       IN  IF exists(new) \/ ~exists(FingerprintRoot)
           THEN UnitEnds("err", fs) /\ UNCHANGED fs
           ELSE fs' = Mkdir(fs, new) /\ UnitEnds("ok", fs')
    /\ UNCHANGED <<src, rest>>

\* The scheduler runs the unit (for prepare_init: the other, identical unit)
\* once more.
Again ==
    /\ call.op \in {"write_fingerprint", "move_old", "init"}
    /\ call.pc = "done"
    /\ call.status = "ok"
    /\ call.run = 1
    /\ call' = [call EXCEPT !.pc = "run", !.run = 2, !.i = 1]
    /\ UNCHANGED <<fs, src, rest>>

\* The process is killed in the middle of a unit.
Crash ==
    /\ call.op \in {"write_fingerprint", "move_old", "init"}
    /\ call.pc \in {"run", "write"}
    /\ call' = [call EXCEPT !.pc = "crashed", !.status = "crashed"]
    /\ UNCHANGED <<fs, src, rest>>

\* The dirty work of the library of foo starts: rustc is run and reads the
\* input files of the target.
RustcRead ==
    /\ call.op = "none"
    /\ call.run = 0
    /\ exists(NewFpDir)
    /\ \A i \in 1..Len(CompilerInputs(FooLib)) :
          stat_source("foo", CompilerInputs(FooLib)[i]) # Absent
    /\ LET p == prepare_target(UnitCx("foo"), "foo", FooLib, "KindTarget")
       IN  /\ p.status = "ok"
           /\ call' = [call EXCEPT !.op = "rustc", !.target = FooLib, !.pc = "read",
                                   !.unit = p, !.before = fs,
                                   !.read = Artifact(FooLib).inputs]
    /\ UNCHANGED <<fs, src, rest>>

\* An editor writes an input file while rustc runs, after rustc has read it.
EditInput ==
    /\ call.op = "rustc"
    /\ call.pc = "read"
    /\ call.gone = 0
    /\ call' = [call EXCEPT !.gone = 1]
    /\ now' = now + 1
    /\ src' = [src EXCEPT ![<<"foo", "src/lib.rs">>] = now + 1]
    /\ UNCHANGED <<fs, rustc, resolve, phase, nbuild, events, cx, prep, jst, cur, ending, prev,
                   wvars, nvars, gvars>>

\* rustc writes the outputs and the dep-info file of what it read; the dirty
\* work goes on with write_fingerprint.
RustcWrite ==
    /\ call.op = "rustc"
    /\ call.pc = "read"
    /\ LET outs == output_pairs(UnitCx("foo"), FooLib, "KindTarget")
           compiled == [Artifact(FooLib) EXCEPT !.inputs = call.read]
       IN  fs' = WriteFile(WriteAll(fs, [i \in 1..Len(outs) |-> outs[i][2]], compiled),
                           LibNewDep, DepInfo(FooLib))
    /\ call' = [call EXCEPT !.op = "write_fingerprint", !.pc = "run", !.run = 1, !.i = 1]
    /\ UNCHANGED <<src, rest>>

\* The build is over and the next one starts: what was in the new layout is
\* in the old one.
NextBuild ==
    /\ call.op = "write_fingerprint"
    /\ call.pc = "done"
    /\ call.status = "ok"
    /\ call.read # <<>>
    /\ fs' = Rotate(fs)
    /\ call' = [NoCall EXCEPT !.run = 2, !.gone = call.gone, !.read = call.read]
    /\ UNCHANGED <<src, rest>>

\* What a call of prepare_target returned: the Freshness, or the error.
Outcome(p) == IF p.status = "ok" THEN p.fresh ELSE p.status

\* The files of the dependency bar in the old layout: its build fingerprint
\* and the library it was compiled to.
BarOldLib == proxy_root(layout(UnitCx("bar"), "KindTarget"), TRUE, <<"lib", "bar", ".rlib">>)

\* Between two calls of prepare_target for a target of foo something of its
\* dependency bar changes: a source file is written or deleted, its build
\* fingerprint is removed, its library is written or removed.
DependencyChanges ==
    /\ call.op = "prepare_target"
    /\ call.pc = "done"
    /\ call.i < 2
    /\ call' = [call EXCEPT !.i = @ + 1]
    /\ \/ /\ now' = now + 1
          /\ \E f \in {Manifest, "src/lib.rs"} : src' = [src EXCEPT ![<<"bar", f>>] = now + 1]
          /\ UNCHANGED fs
       \/ /\ stat_source("bar", "src/lib.rs") # Absent
          /\ src' = [src EXCEPT ![<<"bar", "src/lib.rs">>] = Absent]
          /\ UNCHANGED <<fs, now>>
       \/ /\ \E gone \in {BuildOldFp, BarOldLib} :
                /\ exists(gone)
                /\ fs' = [p \in DOMAIN fs \ {gone} |-> fs[p]]
          /\ UNCHANGED <<src, now>>
       \/ /\ fs' = WriteFile(fs, BarOldLib, Artifact(BarLib))
          /\ UNCHANGED <<src, now>>
    /\ UNCHANGED <<rustc, resolve, phase, nbuild, events, cx, prep, jst, cur, ending, prev,
                   wvars, nvars, gvars>>

\* prepare_target is called once more for the same target.
CallAgain ==
    /\ call.op = "prepare_target"
    /\ call.pc = "done"
    /\ call' = [call EXCEPT
                   !.pc = "again",
                   !.verdict = Outcome(prepare_target(UnitCx("foo"), "foo", call.target,
                                                      "KindTarget"))]
    /\ UNCHANGED <<fs, src, rest>>

UnitNext ==
    \/ CallPrepareTarget \/ CallPrepareBuildCmd
    \/ CtfReadLine \/ CtfStat \/ CtfScan \/ Unlink
    \/ StartUnit \/ WfCreate \/ WfWrite \/ MoveOld \/ InitUnit \/ Again \/ Crash
    \/ RustcRead \/ EditInput \/ RustcWrite \/ NextBuild
    \/ DependencyChanges \/ CallAgain

UnitSpec == UnitInit /\ [][UnitNext]_vars

\* ------------------------------------------- sources/git/utils.rs

\* The revisions of the remote repository, oldest first; every revision has
\* submodules.
Revs == <<"r1", "r2">>

\* The revisions the remote holds when its branch is at `tip`.
RevsUpTo(tip) == IF tip = "r1" THEN {"r1"} ELSE {"r1", "r2"}

\* What is left of the directory of a `git clone` that failed: git removes
\* it, or leaves it as it found it, depending on its version and on how far
\* it came.
LeftByFailedClone == {"absent", "dir"}

\* The other variables are not touched by the git utilities.
nogit == <<bvars, wvars, nvars, uvars>>

GitInit ==
    /\ InitBuild
    /\ NoWalk
    /\ NoQuery
    /\ call = NoCall
    /\ \E up \in BOOLEAN : git = [NoGit EXCEPT !.reachable = up]

\* The network to the remote goes down or comes back, between two calls.
Network ==
    /\ git.op = "none"
    /\ git' = [git EXCEPT !.reachable = ~@]
    /\ UNCHANGED nogit

\* A commit is pushed to the remote.
RemotePush ==
    /\ git.tip = "r1"
    /\ git' = [git EXCEPT !.tip = "r2"]
    /\ UNCHANGED nogit

\* GitRemote::checkout(into): into.exists() chooses fetch_into or clone_into.
Checkout ==
    /\ git.op = "none"
    /\ git.calls < MaxCalls
    /\ git' = [git EXCEPT !.op = "checkout", !.calls = @ + 1, !.was = git.db,
                          !.rev = "none", !.status = "ok",
                          !.path = IF git.db # "absent" THEN "fetch" ELSE "clone",
                          !.pc = IF git.db # "absent" THEN "fetch_into" ELSE "mkdir"]
    /\ UNCHANGED nogit

\* fn fetch_into: git fetch in the directory of the database.
FetchInto ==
    /\ git.op = "checkout"
    /\ git.pc = "fetch_into"
    /\ git' = IF git.db = "repo" /\ git.reachable
              THEN [git EXCEPT !.dbrevs = @ \cup RevsUpTo(git.tip), !.pc = "done"]
              ELSE [git EXCEPT !.status = "err", !.pc = "done"]
    /\ UNCHANGED nogit

\* fn clone_into, mkdir_recursive(path): the directory of the database is
\* made.
CloneIntoMkdir ==
    /\ git.op = "checkout"
    /\ git.pc = "mkdir"
    /\ git' = [git EXCEPT !.db = "dir", !.pc = "clone"]
    /\ UNCHANGED nogit

\* fn clone_into, git clone --bare into the directory.
CloneIntoClone ==
    /\ git.op = "checkout"
    /\ git.pc = "clone"
    /\ IF git.reachable
       THEN git' = [git EXCEPT !.db = "repo", !.dbrevs = RevsUpTo(git.tip), !.pc = "done"]
       ELSE \E left \in LeftByFailedClone :
               git' = [git EXCEPT !.db = left, !.status = "err", !.pc = "done"]
    /\ UNCHANGED nogit

\* GitDatabase::copy_to(rev, dest) is called with a revision resolved in the
\* database.
CopyTo ==
    /\ git.op = "none"
    /\ git.calls < MaxCalls
    /\ git.db = "repo"
    /\ \E rev \in git.dbrevs :
          git' = [git EXCEPT !.op = "copy_to", !.calls = @ + 1, !.was = git.co, !.path = "",
                             !.rev = rev, !.status = "ok", !.pc = "clone_into"]
    /\ UNCHANGED nogit

\* GitCheckout::clone_into: a checkout with .git is kept; otherwise
\* clone_repo clones the database without checking out.
CheckoutCloneInto ==
    /\ git.op = "copy_to"
    /\ git.pc = "clone_into"
    /\ git' = IF git.co = "repo"
              THEN [git EXCEPT !.pc = "rev_for"]
              ELSE [git EXCEPT !.co = "repo", !.corevs = git.dbrevs, !.subs = "none",
                               !.head = Revs[Cardinality(git.dbrevs)], !.pc = "clone_reset"]
    /\ UNCHANGED nogit

\* clone_repo, try!(self.reset()): git reset --hard <revision>.
CloneRepoReset ==
    /\ git.op = "copy_to"
    /\ git.pc = "clone_reset"
    /\ git' = [git EXCEPT !.head = git.rev, !.pc = "rev_for"]
    /\ UNCHANGED nogit

\* copy_to, the match on rev_for(dest, "HEAD"): Ok(checkout) is returned when
\* HEAD is the revision, the checkout is fetched otherwise.
RevForHead ==
    /\ git.op = "copy_to"
    /\ git.pc = "rev_for"
    /\ git' = IF git.head = git.rev THEN [git EXCEPT !.pc = "done"]
              ELSE [git EXCEPT !.pc = "fetch"]
    /\ UNCHANGED nogit

\* GitCheckout::fetch: git fetch origin, the database.
CheckoutFetch ==
    /\ git.op = "copy_to"
    /\ git.pc = "fetch"
    /\ git' = [git EXCEPT !.corevs = @ \cup git.dbrevs, !.pc = "reset"]
    /\ UNCHANGED nogit

\* GitCheckout::reset: git reset --hard <revision>.
CheckoutReset ==
    /\ git.op = "copy_to"
    /\ git.pc = "reset"
    /\ git' = [git EXCEPT !.head = git.rev, !.pc = "update_submodules"]
    /\ UNCHANGED nogit

\* GitCheckout::update_submodules: git submodule update --init --recursive.
UpdateSubmodules ==
    /\ git.op = "copy_to"
    /\ git.pc = "update_submodules"
    /\ git' = [git EXCEPT !.subs = git.head, !.pc = "done"]
    /\ UNCHANGED nogit

\* The call has returned.
GitReturn ==
    /\ git.op # "none"
    /\ git.pc = "done"
    /\ git' = [git EXCEPT !.op = "none", !.pc = "idle", !.rev = "none", !.was = "",
                          !.path = "", !.status = "ok"]
    /\ UNCHANGED nogit

GitNext ==
    \/ Network \/ RemotePush
    \/ Checkout \/ FetchInto \/ CloneIntoMkdir \/ CloneIntoClone
    \/ CopyTo \/ CheckoutCloneInto \/ CloneRepoReset \/ RevForHead
    \/ CheckoutFetch \/ CheckoutReset \/ UpdateSubmodules
    \/ GitReturn

GitSpec == GitInit /\ [][GitNext]_vars


\* ---------------------------------------------------------------- claims

\* The jobs of the current build that went through prepare_target.
TargetJobs == {j \in DOMAIN prep : j.kind = "target"}

\* The jobs of the current build that went through prepare_build_cmd with a
\* non-empty build list.
BuildCmdJobs == {j \in DOMAIN prep : j.kind = "build" /\ Len(get_build(j.pkg)) > 0}

\* The old dep-info and the old fingerprint file of a target job.
OldDepInfo(j) == dep_info_loc(CxFor(j.pkg), j.pkg, j.target, KindOf(j))[1]
OldFingerprint(j) == join(dirs(CxFor(j.pkg), j.pkg, KindOf(j))[1], filename(j.target))
NewFingerprint(j) == join(dirs(CxFor(j.pkg), j.pkg, KindOf(j))[2], filename(j.target))

\* C1: when a build succeeded and nothing (source file, compiler, manifest)
\* changed since it started, the next build gets Fresh from prepare_target
\* for every target and from prepare_build_cmd for every package, and runs
\* no dirty work (no compile command).
C1_SecondBuildFresh ==
    (nbuild >= 2 /\ prev.how = "ok" /\ prev.changed = {})
        => /\ \A j \in DOMAIN prep : prep[j].status = "ok" /\ prep[j].fresh = "Fresh"
           /\ cur.mode # "Dirty"
           /\ \A j \in DOMAIN jst : jst[j] \in {"wait", "fresh"}

\* A second build with no change in between ran to its end.
C1_Witness ==
    /\ nbuild >= 2 /\ prev.how = "ok" /\ prev.changed = {}
    /\ phase = "idle" /\ ending.how = "ok"
    /\ \A j \in TargetJobs \cup BuildCmdJobs : jst[j] = "fresh"

\* C2: whenever prepare_target returns Fresh, every source path of its
\* promote list exists in the old layout.
C2_FreshPromotable ==
    phase = "prepared"
        => \A j \in TargetJobs :
              prep[j].fresh = "Fresh"
                  => \A i \in 1..Len(prep[j].pairs) : exists(prep[j].pairs[i][1])

\* C3: when the old layout holds no fingerprint and no dep-info file, every
\* target and every package with build commands is prepared, without error,
\* as Dirty.
C3_FirstBuildDirty ==
    (phase = "prepared"
        /\ \A p \in DOMAIN fs : (p.old /\ p.area = "fingerprint") => fs[p].kind = "dir")
        => \A j \in TargetJobs \cup BuildCmdJobs :
              prep[j].status = "ok" /\ prep[j].fresh = "Dirty"

\* The first build of an empty build directory has been prepared.
C3_Witness ==
    /\ phase = "prepared"
    /\ nbuild = 1
    /\ DOMAIN fs = {}
    /\ TargetJobs # {} /\ BuildCmdJobs # {}

\* The inputs the old dep-info of a job lists that are stale: missing, or
\* modified after the dep-info was written.
StaleInputs(j) ==
    LET f == fs[OldDepInfo(j)]
    IN  {i \in 1..Len(f.content.inputs) :
            \/ stat_source(j.pkg, f.content.inputs[i]) = Absent
            \/ stat_source(j.pkg, f.content.inputs[i]) > f.mtime}

\* C4: a non-doc target whose old dep-info lists an input that is missing or
\* has an mtime greater than the dep-info's is prepared as Dirty; when every
\* listed input exists with an mtime less than or equal to the dep-info's,
\* the files are fresh, so the target is Fresh as soon as its old
\* fingerprint is the current one.
C4_MtimeFreshness ==
    phase = "prepared"
        => \A j \in TargetJobs :
              (~j.target.profile.doc /\ exists(OldDepInfo(j)))
                  => /\ StaleInputs(j) # {} => prep[j].fresh = "Dirty"
                     /\ (StaleInputs(j) = {} /\ exists(OldFingerprint(j))
                         /\ fs[OldFingerprint(j)].content = prep[j].fingerprint)
                            => prep[j].fresh = "Fresh"

\* A target whose fingerprint is current is Dirty because one of its inputs
\* was touched after its dep-info was written.
C4_Witness ==
    /\ phase = "prepared"
    /\ \E j \in TargetJobs :
          /\ ~j.target.profile.doc
          /\ exists(OldDepInfo(j)) /\ exists(OldFingerprint(j))
          /\ fs[OldFingerprint(j)].content = prep[j].fingerprint
          /\ \E i \in StaleInputs(j) :
                stat_source(j.pkg, fs[OldDepInfo(j)].content.inputs[i]) > fs[OldDepInfo(j)].mtime
          /\ prep[j].fresh = "Dirty"

\* C5: when the compiler version of a build differs from the one of the
\* build before, the fingerprint of every target differs from the stored
\* one and every target is Dirty; a stored fingerprint made with the same
\* version from the same data equals the new one.
C5_CompilerUpgradeDirty ==
    (phase = "prepared" /\ nbuild >= 2)
        => \A j \in TargetJobs :
              /\ cx.rustc_version # prev.rustc_version
                    => /\ prep[j].fresh = "Dirty"
                       /\ exists(OldFingerprint(j))
                             => fs[OldFingerprint(j)].content # prep[j].fingerprint
              /\ (exists(OldFingerprint(j))
                  /\ fs[OldFingerprint(j)].content.ver = cx.rustc_version
                  /\ fs[OldFingerprint(j)].content.data = prep[j].fingerprint.data)
                    => is_fresh(OldFingerprint(j), prep[j].fingerprint) = "true"

\* A build after a successful one, with the compiler upgraded and nothing
\* else changed.
C5_Witness ==
    /\ phase = "prepared"
    /\ prev.how = "ok" /\ prev.changed = {<<"", "rustc">>}
    /\ cx.rustc_version # prev.rustc_version
    /\ \A j \in TargetJobs : exists(OldFingerprint(j)) /\ prep[j].fresh = "Dirty"

\* The files that the dep-info rustc writes for `a` lists and the one it
\* writes for `b` does not.
OnlyInputsOf(a, b) ==
    {<<a.pkg, f>> : f \in Range(CompilerInputs(a.target)) \ Range(CompilerInputs(b.target))}

\* C6: after a successful build, a change of only input files that the
\* dep-info of a package's test target lists and the dep-info of its library
\* target does not makes the test target Dirty and leaves the library target
\* Fresh.
C6_PerTargetFreshness ==
    (phase = "prepared" /\ prev.how = "ok" /\ prev.changed # {})
        => \A t \in TargetJobs : \A l \in TargetJobs :
              (/\ t.pkg = l.pkg
               /\ t.target.profile.test
               /\ ~l.target.profile.test /\ ~l.target.profile.doc /\ is_lib(l.target)
               /\ prev.changed \subseteq OnlyInputsOf(t, l))
                  => prep[t].fresh = "Dirty" /\ prep[l].fresh = "Fresh"

\* Only src/tests.rs of foo changed after a successful build.
C6_Witness ==
    /\ phase = "prepared" /\ prev.how = "ok"
    /\ prev.changed = {<<"foo", "src/tests.rs">>}
    /\ prep[TargetJob(FooTest)].fresh = "Dirty"
    /\ prep[TargetJob(FooLib)].fresh = "Fresh"

\* C7: when the compile command of a target failed, the new layout holds at
\* the end of the build no fingerprint file of the target with its current
\* fingerprint, and the next build prepares the target as Dirty, also when
\* the target had been prepared as Fresh and was recompiled for a dependency.
C7_FailedCompileDirty ==
    /\ (phase = "idle" /\ ending.how = "failed" /\ ending.stop.job.kind = "target"
        /\ ending.stop.mode = "Dirty")
          => \/ ~exists(NewFingerprint(ending.stop.job))
             \/ fs[NewFingerprint(ending.stop.job)].content # prep[ending.stop.job].fingerprint
    /\ (phase = "prepared" /\ prev.how = "failed" /\ prev.stop.job.kind = "target"
        /\ prev.stop.mode = "Dirty" /\ prev.stop.job \in DOMAIN prep)
          => prep[prev.stop.job].fresh = "Dirty"

\* The build after one in which a target prepared as Fresh was recompiled
\* for a dependency and its compile command failed.
C7_Witness ==
    /\ phase = "prepared"
    /\ prev.how = "failed" /\ prev.stop.job.kind = "target"
    /\ prev.stop.mode = "Dirty" /\ prev.stop.fresh = "Fresh"
    /\ prev.stop.job \in DOMAIN prep
    /\ prep[prev.stop.job].fresh = "Dirty"

\* C8: after a build that was cancelled while it ran the promote unit of a
\* target, the next build prepares that target as Dirty.
C8_CancelledPromoteDirty ==
    (phase = "prepared" /\ prev.how = "cancelled" /\ prev.stop.job.kind = "target"
        /\ prev.stop.mode = "Fresh" /\ prev.stop.job \in DOMAIN prep)
        => prep[prev.stop.job].fresh = "Dirty"

\* The target jobs of the packages a job's package depends on in the
\* resolved graph of the build.
LinkedJobs(j) ==
    {d \in DOMAIN jst : d.kind = "target" /\ d.pkg \in Range(cx.resolve[j.pkg])}

\* The mtimes of the outputs of a target job in the new layout.
OutputTimes(j) ==
    LET outs == output_pairs(CxFor(j.pkg), j.target, KindOf(j))
    IN  {fs[outs[i][2]].mtime : i \in {k \in 1..Len(outs) : exists(outs[k][2])}}

\* C9: a target runs its work only when every dependency target is promoted
\* or compiled; a target is never promoted in a build that recompiled one of
\* its dependencies; and at the end of a successful build no output of a
\* target is older than an output of one of its dependencies.
C9_DependencyOrder ==
    \A j \in {k \in DOMAIN jst : k.kind = "target"} :
        /\ (cur.job = j \/ jst[j] \in {"fresh", "dirty"})
              => \A d \in LinkedJobs(j) : jst[d] \in {"fresh", "dirty"}
        /\ ((cur.job = j /\ cur.mode = "Fresh") \/ jst[j] = "fresh")
              => \A d \in LinkedJobs(j) : jst[d] # "dirty"
        /\ (phase = "idle" /\ ending.how = "ok")
              => \A d \in LinkedJobs(j) :
                    \A a \in OutputTimes(j) : \A b \in OutputTimes(d) : a >= b

\* A successful build in which a target prepared as Fresh was recompiled
\* after its dependency.
C9_Witness ==
    /\ phase = "idle" /\ ending.how = "ok"
    /\ \E j \in TargetJobs :
          /\ prep[j].fresh = "Fresh" /\ jst[j] = "dirty"
          /\ \E d \in LinkedJobs(j) : jst[d] = "dirty"

\* The package a path of the build directory belongs to.
OwnerOf(p) == IF p.area \in {"fingerprint", "native"} THEN p.dir ELSE fs[p].content.target.pkg

\* C10: the new layout holds no file of a package that is not in the
\* resolved graph of the build, and a build whose root package links against
\* a crate that is not in the graph does not succeed.
C10_RemovedDependencyFails ==
    /\ phase # "idle"
          => \A p \in DOMAIN fs : ~p.old => OwnerOf(p) \in Range(PackageOrder)
    /\ (phase = "idle" /\ ending.how = "ok")
          => \A j \in TargetJobs : ExternCrates(j.target) \subseteq Range(PackageOrder)

\* C11: when a build succeeded, a package with build commands that the next
\* build prepares as Fresh has both sources of its promote list, the old
\* "build" fingerprint file and the old native directory; with nothing
\* changed the package is Fresh, its promote unit does not fail and the
\* build does not fail.
C11_BuildCmdTwice ==
    (nbuild >= 2 /\ prev.how = "ok")
        => \A j \in BuildCmdJobs :
              /\ (phase = "prepared" /\ prep[j].fresh = "Fresh")
                    => /\ Len(prep[j].pairs) = 2
                       /\ exists(join(dirs(CxFor(j.pkg), j.pkg, "KindTarget")[1], <<"build">>))
                       /\ exists(proxy_native(layout(CxFor(j.pkg), "KindTarget"), TRUE, j.pkg))
                       /\ \A i \in 1..2 : exists(prep[j].pairs[i][1])
              /\ prev.changed = {}
                    => /\ prep[j].fresh = "Fresh"
                       /\ jst[j] # "failed"
                       /\ ending.how # "failed"

\* The second of two builds with nothing changed has promoted the build
\* fingerprint and the native directory of bar and has succeeded.
C11_Witness ==
    /\ nbuild = 2 /\ prev.how = "ok" /\ prev.changed = {}
    /\ phase = "idle" /\ ending.how = "ok"
    /\ jst[BuildJob("bar")] = "fresh"
    /\ exists(proxy_native(layout(CxFor("bar"), "KindTarget"), FALSE, "bar"))
    /\ exists(join(dirs(CxFor("bar"), "bar", "KindTarget")[2], <<"build">>))

\* The packages of the world without build commands.
NoBuildPackages == {p \in Packages : Len(get_build(p)) = 0}

\* C12: on a package without build commands prepare_build_cmd returns, in
\* every state of the filesystem, Fresh and two empty work units; no native
\* directory of such a package ever exists, and the step that runs a work
\* unit of such a package leaves the filesystem as it is.
C12_EmptyBuildShortcut ==
    /\ [](\A p \in NoBuildPackages :
            /\ prepare_build_cmd(CxFor(p), p)
                  = [status |-> "ok", fresh |-> "Fresh", loc |-> NoPath,
                     fingerprint |-> NoFingerprint, pairs |-> <<>>, noop |-> TRUE]
            /\ \A q \in DOMAIN fs : q.area = "native" => q.dir # p
            /\ BuildJob(p) \in DOMAIN prep
                  => prep[BuildJob(p)].fresh = "Fresh" /\ prep[BuildJob(p)].noop)
    /\ [][(cur.job.kind = "build" /\ cur.job.pkg \in NoBuildPackages /\ cur' # cur)
            => fs' = fs]_vars

\* The empty work unit of foo has run in a build directory that holds the
\* native directory of bar and none of foo.
C12_Witness ==
    /\ BuildJob("foo") \in DOMAIN jst
    /\ jst[BuildJob("foo")] = "fresh"
    /\ \E q \in DOMAIN fs : q.area = "native" /\ q.dir = "bar"
    /\ \A q \in DOMAIN fs : q.area = "native" => q.dir # "foo"

\* The join of a non-empty set of requirements: equal values stay, different
\* values give PluginAndTarget.
Join(S) ==
    IF S = {"Target"} THEN "Target"
    ELSE IF S = {"Plugin"} THEN "Plugin"
    ELSE "PluginAndTarget"

\* The effective requirements of the entries into a pair.
EffectiveOf(key) ==
    {IF e.plugin THEN "Plugin" ELSE e.incoming : e \in {x \in entries : x.key = key}}

\* C13: the requirement stored for a pair is the join of the effective
\* requirements of the entries of the walk into the pair, Plugin for a plugin
\* target and the incoming requirement otherwise.
C13_RequirementJoin ==
    /\ DOMAIN requirements = {e.key : e \in entries}
    /\ \A key \in DOMAIN requirements : requirements[key] = Join(EffectiveOf(key))

\* prepare() has returned and a pair that was entered with Plugin and with
\* Target is stored as PluginAndTarget.
C13_Witness ==
    /\ Prepared
    /\ \E key \in DOMAIN requirements :
          /\ EffectiveOf(key) = {"Plugin", "Target"}
          /\ requirements[key] = "PluginAndTarget"

\* The pair of a target.
PairOf(t) == <<t.pkg, t.name>>

\* The targets of the packages of the walked graph.
WalkTargets == UNION {Range(graph.targets[p]) : p \in Range(WalkPackages)}

\* The targets prepare() walks from.
RootTargets == {t \in Range(graph.targets[WalkRoot]) : t.profile.compile}

\* The pairs on the dependency paths (no pair twice on a path) that start at
\* `target` with the class `incoming`, each with the class of the path that
\* leads to it: Plugin when a plugin target is on it, Target otherwise.
RECURSIVE PathClasses(_, _, _)
PathClasses(target, incoming, onpath) ==
    LET class == IF target.profile.plugin THEN "Plugin" ELSE incoming
        here == onpath \cup {PairOf(target)}
        deps == {d \in Range(dep_targets(WalkCx, target.pkg)) : PairOf(d) \notin here}
    IN  {<<PairOf(target), class>>} \cup UNION {PathClasses(d, class, here) : d \in deps}

\* The classes of the paths from a root target to a pair.
ClassesOf(key) ==
    {c \in {"Target", "Plugin"} :
        \E t \in RootTargets : <<key, c>> \in PathClasses(t, "Target", {})}

\* C14: after prepare() a pair is stored as PluginAndTarget if and only if a
\* dependency path classified Target and a dependency path classified Plugin
\* lead to it from the compile targets of the root package.
C14_BothIffBothPaths ==
    Prepared
        => \A t \in WalkTargets :
              (PairOf(t) \in DOMAIN requirements /\ requirements[PairOf(t)] = "PluginAndTarget")
                  <=> ClassesOf(PairOf(t)) = {"Target", "Plugin"}

\* The targets that dependency-target selection reaches from the targets S.
RECURSIVE Downstream(_)
Downstream(S) ==
    LET T == S \cup UNION {Range(dep_targets(WalkCx, t.pkg)) : t \in S}
    IN  IF T = S THEN S ELSE Downstream(T)

\* C15: after prepare() every pair downstream of a visited plugin target is
\* stored with Plugin or PluginAndTarget, never with Target and never absent.
C15_PluginDownstream ==
    Prepared
        => \A t \in WalkTargets :
              (t.profile.plugin /\ PairOf(t) \in DOMAIN requirements)
                  => \A d \in Downstream(Range(dep_targets(WalkCx, t.pkg))) :
                        /\ PairOf(d) \in DOMAIN requirements
                        /\ requirements[PairOf(d)] \in {"Plugin", "PluginAndTarget"}

\* C16: the walk comes to its end on every graph, a package that depends on
\* itself and cycles through several packages included: prepare() returns,
\* no package is twice on the stack, and when a top-level walk has returned
\* the visiting set is empty.
C16_WalkTerminates ==
    /\ <>[]Prepared
    /\ [](visiting = {stack[i].pkg : i \in 1..Len(stack)})
    /\ [](\A i \in 1..Len(stack) : \A j \in 1..Len(stack) :
             stack[i].pkg = stack[j].pkg => i = j)

\* prepare() has returned on a graph in which the root depends on itself and
\* on b, and b and c depend on each other.
C16_Witness ==
    /\ Prepared
    /\ "a" \in Range(graph.deps["a"]) /\ "b" \in Range(graph.deps["a"])
    /\ "c" \in Range(graph.deps["b"]) /\ "b" \in Range(graph.deps["c"])
    /\ <<"c", "c">> \in DOMAIN requirements

\* The targets reached from the root targets, the root targets included.
ReachedTargets == Downstream(RootTargets)

\* C17: prepare() walks with requirement Target from each target of the root
\* package whose profile is_compile; the keys of the map are the pairs of
\* those targets and of the targets reached from them, and no other; without
\* a plugin every value is Target; get_requirement gives Target for a pair
\* that is not in the map.
C17_RequirementKeys ==
    /\ Len(stack) >= 1
          => /\ stack[1].pkg = WalkRoot
             /\ stack[1].target \in RootTargets
             /\ stack[1].req = IF stack[1].target.profile.plugin THEN "Plugin" ELSE "Target"
    /\ Prepared
          => /\ \A t \in RootTargets :
                   [key |-> PairOf(t), plugin |-> t.profile.plugin, incoming |-> "Target"]
                       \in entries
             /\ DOMAIN requirements = {PairOf(t) : t \in ReachedTargets}
             /\ (\A t \in WalkTargets : ~t.profile.plugin)
                   => \A key \in DOMAIN requirements : requirements[key] = "Target"
    /\ \A t \in WalkTargets :
          PairOf(t) \notin DOMAIN requirements => get_requirement(t.pkg, t) = "Target"

\* prepare() has returned on the diamond a -> b, a -> c, b -> d, c -> d without
\* a plugin: the map has four entries, one for each library, all Target.
C17_Witness ==
    /\ Prepared
    /\ graph.deps = [a |-> <<"b", "c">>, b |-> <<"d">>, c |-> <<"d">>, d |-> <<>>]
    /\ \A t \in WalkTargets : t.lib /\ ~t.profile.plugin
    /\ requirements = [key \in {<<"a", "a">>, <<"b", "b">>, <<"c", "c">>, <<"d", "d">>} |-> "Target"]
    /\ Cardinality(DOMAIN requirements) = 4

\* C18: target_filenames gives the one name stem + exe suffix for a binary
\* and for a target with a test profile; for another target the dylib name if
\* it is a dylib, then lib<stem>.rlib if it is an rlib; when that leaves no
\* name the call is a fatal error, so no empty list is ever returned.
C18_TargetFilenames ==
    answer.op = "target_filenames"
        => LET stem == subject.name
               dylibs == {<<pair[1], stem, pair[2]>> : pair \in {probe.host_dylib, probe.target_dylib}}
               rlibname == <<"lib", stem, ".rlib">>
               isdylib == subject.lib /\ subject.dylib
               isrlib == subject.lib /\ subject.rlib
           IN  /\ (~subject.lib \/ subject.profile.test)
                     => answer.names = << <<stem, probe.target_exe>> >>
               /\ (subject.lib /\ ~subject.profile.test)
                     => /\ Len(answer.names) = (IF isdylib THEN 1 ELSE 0) + (IF isrlib THEN 1 ELSE 0)
                        /\ isdylib => answer.names[1] \in dylibs
                        /\ isrlib => answer.names[Len(answer.names)] = rlibname
               /\ answer.status = "ok" <=> answer.names # <<>>
               /\ answer.status = "panic" <=> answer.names = <<>>

\* target_filenames has named the two outputs of a library that is a dylib
\* and an rlib.
C18_Witness ==
    /\ answer.op = "target_filenames"
    /\ subject.lib /\ subject.dylib /\ subject.rlib /\ subject.profile = ProfCompile
    /\ probe.target_dylib = <<"", ".dll">>
    /\ answer.names = << <<"", "foo", ".dll">>, <<"lib", "foo", ".rlib">> >>

\* C19: the name of the output of a dylib library, and of its promote pair in
\* prepare_target(cx, pkg, target, kind), is made with the dylib pair of the
\* Kind the target is built for: host_dylib for KindPlugin, target_dylib for
\* KindTarget; the two pairs are equal when no cross target is configured.
C19_DylibOfKind ==
    /\ answer.op = "dylib"
          => answer.names = <<IF built = "KindPlugin" THEN probe.host_dylib ELSE probe.target_dylib>>
    /\ ~probe.has_target => probe.host_dylib = probe.target_dylib
    /\ (answer.op = "prepare_target" /\ answer.status = "ok"
            /\ subject.lib /\ subject.dylib
            /\ ~subject.profile.test /\ ~subject.profile.doc)
          => LET pair == IF built = "KindPlugin" THEN probe.host_dylib ELSE probe.target_dylib
                 name == <<pair[1], subject.name, pair[2]>>
             IN  /\ answer.pairs[3][1].file = name
                 /\ answer.pairs[3][2].file = name

\* The doc target of the root package, its fingerprint files and the
\* fingerprint prepare_target is to compute for it.
DocJob == TargetJob(FooDoc)
DocOld == Path("host", TRUE, "fingerprint", "foo", <<"doc-", "lib", "-", "foo">>)
DocNew == Path("host", FALSE, "fingerprint", "foo", <<"doc-", "lib", "-", "foo">>)
DocFingerprint ==
    [tag |-> "fp", ver |-> cx.rustc_version,
     data |-> [target |-> FooDoc, srcfp |-> source_fingerprint("foo")]]

\* C20: for a doc target prepare_target is Fresh exactly when the old
\* fingerprint file holds the hash of (rustc_version, (target, source
\* fingerprint of the package)), whatever the state of the dep-info file; a
\* change of the source fingerprint alone makes it Dirty; its promote list
\* is the pair of the fingerprint file and nothing else.
C20_DocTarget ==
    LET p == prepare_target(CxFor("foo"), "foo", FooDoc, "KindTarget")
    IN  /\ p.status = "ok"
        /\ p.fingerprint = DocFingerprint
        /\ p.loc = DocNew
        /\ p.pairs = << <<DocOld, DocNew>> >>
        /\ p.fresh = "Fresh" <=> (exists(DocOld) /\ fs[DocOld].content = DocFingerprint)
        /\ (/\ exists(DocOld)
            /\ fs[DocOld].content.ver = cx.rustc_version
            /\ fs[DocOld].content.data.srcfp # source_fingerprint("foo"))
              => p.fresh = "Dirty"
        /\ (phase = "prepared" /\ DocJob \in DOMAIN prep) => prep[DocJob] = p

\* After a successful build only src/tests.rs of foo changed, which is no
\* input of the documentation: the doc target is prepared Dirty, with the
\* old fingerprint of the same compiler in place and no dep-info file.
C20_Witness ==
    /\ phase = "prepared" /\ nbuild >= 2
    /\ prev.how = "ok" /\ prev.changed = {<<"foo", "src/tests.rs">>}
    /\ exists(DocOld) /\ fs[DocOld].content.ver = cx.rustc_version
    /\ ~exists(OldDepInfo(DocJob))
    /\ prep[DocJob].fresh = "Dirty"
    /\ prep[TargetJob(FooLib)].fresh = "Fresh"

\* The old fingerprint file and the old dep-info file of the library of foo.
LibFpOld == Path("host", TRUE, "fingerprint", "foo", <<"", "lib", "-", "foo">>)
LibFpNew == Path("host", FALSE, "fingerprint", "foo", <<"", "lib", "-", "foo">>)
LibDepOld == Path("host", TRUE, "fingerprint", "foo", <<"dep-", "", "lib", "-", "foo">>)
LibDepNew == Path("host", FALSE, "fingerprint", "foo", <<"dep-", "", "lib", "-", "foo">>)

\* The file at `path` of the directory `f` holds the fingerprint that is
\* computed now for the target.
HoldsFingerprint(f, path, t) ==
    /\ path \in DOMAIN f
    /\ f[path].kind = "file"
    /\ f[path].content =
          [tag |-> "fp", ver |-> cx.rustc_version,
           data |-> [target |-> t,
                     srcfp |-> IF t.profile.doc THEN source_fingerprint("foo") ELSE <<>>]]

\* C21: when prepare_target returns a Preparation it is Fresh if and only if
\* the fingerprint file at the old location holds the fingerprint computed
\* now and the target is a doc target or calculate_target_fresh of the old
\* dep-info file is true; the files of the new layout have no part in it.
C21_FreshFromOldLayout ==
    (call.op = "prepare_target" /\ call.unit.status = "ok")
        => LET t == call.target
               old == IF t.profile.doc THEN DocOld ELSE LibFpOld
           IN  call.unit.fresh = "Fresh"
                  <=> /\ HoldsFingerprint(fs, old, t)
                      /\ t.profile.doc \/ calculate_target_fresh("foo", LibDepOld) = "true"

\* prepare_target is Dirty for the library with no fingerprint file in the
\* old layout, while the new layout holds the fingerprint computed now and
\* a dep-info file.
C21_Witness ==
    /\ call.op = "prepare_target" /\ call.unit.status = "ok"
    /\ call.target = FooLib
    /\ call.unit.fresh = "Dirty"
    /\ LibFpOld \notin DOMAIN fs
    /\ HoldsFingerprint(fs, LibFpNew, FooLib)
    /\ LibDepNew \in DOMAIN fs
    /\ calculate_target_fresh("foo", LibDepOld) = "true"

\* The file at `path` was there and could not be read when the call started.
Unreadable(path) ==
    /\ path \in DOMAIN call.before
    /\ \/ call.before[path].kind \in {"locked", "dir"}
       \/ call.before[path].content.tag = "bytes"

\* The dep-info file of the library was there with a first line without ": "
\* when the call started.
NoSeparator ==
    /\ LibDepOld \in DOMAIN call.before
    /\ call.before[LibDepOld].kind = "file"
    /\ call.before[LibDepOld].content.line = "nosep"

\* C22: when the old fingerprint file exists and cannot be read,
\* prepare_target and prepare_build_cmd return a Preparation that is Dirty,
\* not an error.
C22_UnreadableFingerprintDirty ==
    /\ (call.op = "prepare_target" /\ ~NoSeparator
            /\ Unreadable(IF call.target.profile.doc THEN DocOld ELSE LibFpOld))
          => call.unit.status = "ok" /\ call.unit.fresh = "Dirty"
    /\ (call.op = "prepare_build_cmd"
            /\ Unreadable(Path("host", TRUE, "fingerprint", "bar", <<"build">>)))
          => call.unit.status = "ok" /\ call.unit.fresh = "Dirty"

\* The dep-info file of the library was there as rustc writes it when the
\* call started.
DepInfoWritten ==
    /\ LibDepOld \in DOMAIN call.before
    /\ call.before[LibDepOld].kind = "file"
    /\ call.before[LibDepOld].content.line = "ok"

\* C23: calculate_target_fresh returns false and no error when the dep-info
\* file is missing, cannot be read, or disappears during the call, and when
\* an input file it lists is missing.
C23_MissingFilesFalse ==
    (call.op = "calculate_target_fresh" /\ call.pc = "done")
        => /\ LibDepOld \notin DOMAIN call.before => call.verdict = "false"
           /\ Unreadable(LibDepOld) => call.verdict = "false"
           /\ (DepInfoWritten /\ LibDepOld \notin DOMAIN fs) => call.verdict = "false"
           /\ (DepInfoWritten /\ call.gone = 0 /\ stat_source("foo", "src/lib.rs") = Absent)
                 => call.verdict = "false"

\* C24: when the old dep-info file of a non-doc target is there and its
\* first line has no ": ", prepare_target ends with an internal error and
\* returns no Preparation, whatever the fingerprint file is.
C24_NoSeparatorInternalError ==
    (call.op = "prepare_target" /\ ~call.target.profile.doc /\ NoSeparator)
        => call.unit = Failed("internal")

\* prepare_target ended with the internal error for a dep-info file without
\* ": " while the old fingerprint file is one that cannot be read either.
C24_Witness ==
    /\ call.op = "prepare_target" /\ call.target = FooLib
    /\ NoSeparator
    /\ Unreadable(LibFpOld) /\ fs[LibFpOld].content.tag = "bytes"
    /\ call.unit.status = "internal"

\* C25: write_fingerprint and move_old are idempotent: a second run of the
\* unit succeeds as the first did and leaves the build directory as the
\* first left it.
C25_UnitsIdempotent ==
    (call.op \in {"write_fingerprint", "move_old"} /\ call.run = 2 /\ call.pc = "done")
        => call.status = "ok" /\ fs = call.after

\* C26: each of the two units of prepare_init makes the new fingerprint
\* directory as mkdir -p does: it succeeds when the directory is there and
\* when its parent is not, and a second unit leaves the state of the first.
C26_InitMkdirP ==
    (call.op = "init" /\ call.pc = "done")
        => /\ call.status = "ok"
           /\ Path("host", FALSE, "fingerprint", "foo", <<>>) \in DOMAIN fs
           /\ call.run = 2 => fs = call.after

\* C27: write_fingerprint is atomic: at every moment of the unit, and after
\* a crash in it, the file at the new location is as it was before the unit
\* or holds the whole fingerprint.
C27_WriteAtomic ==
    call.op = "write_fingerprint"
        => \/ LibFpNew \notin DOMAIN fs /\ LibFpNew \notin DOMAIN call.before
           \/ /\ LibFpNew \in DOMAIN fs /\ LibFpNew \in DOMAIN call.before
              /\ fs[LibFpNew].content = call.before[LibFpNew].content
           \/ LibFpNew \in DOMAIN fs /\ fs[LibFpNew].content = call.unit.fingerprint

\* C28: once prepare() has returned, no operation offered to job generation
\* changes a field of the Context, the requirements map and the primary flag
\* among them.
C28_ContextReadOnly == [][probe' = probe /\ requirements' = requirements]_vars

\* C30: the operation aborts when the resolved graph does not know the
\* package whose dependencies are asked for, when a dependency has no package
\* in the PackageSet, and when the SourceMap has no source for the package;
\* it never goes on with fewer dependencies.
C30_UnknownInputsAbort ==
    /\ (answer.op = "dep_targets" /\ subject.pkg \notin DOMAIN probe.resolve)
          => answer.status = "panic"
    /\ (answer.op = "dep_targets" /\ subject.pkg \in DOMAIN probe.resolve
            /\ "ghost" \in Range(probe.resolve[subject.pkg]))
          => answer.status = "panic"
    /\ (answer.op = "prepare_target" /\ subject.profile.doc /\ subject.pkg \notin probe.sources)
          => answer.status = "panic"
    /\ (answer.op = "prepare_build_cmd" /\ "bar" \notin probe.sources)
          => answer.status = "panic"

\* The paths of the fingerprint area that the work units of a Preparation
\* write or rename to.
FingerprintWrites(pairs) ==
    {pairs[i][2] : i \in {k \in 1..Len(pairs) : pairs[k][2].area = "fingerprint"}}

\* The paths of the fingerprint area that the work units of package bar
\* write, create or rename to: for each of its targets and Kinds, for its
\* build commands and for prepare_init.
WritesOfBar ==
    UNION {LET q == prepare_target(probe, "bar", [t EXCEPT !.pkg = "bar"], k)
           IN  (IF q.status = "ok" THEN FingerprintWrites(q.pairs) \cup {q.loc} ELSE {})
               \cup {prepare_init(probe, "bar", k)} : t \in Subjects, k \in Kinds}
    \cup (LET b == prepare_build_cmd(probe, "bar")
          IN  IF b.status = "ok" THEN FingerprintWrites(b.pairs) \cup {b.loc} ELSE {})

\* C29: the paths that the work units of a target write, create or rename to
\* in the fingerprint area (fingerprint file, dep-info file, fingerprint
\* directory) are none of those of a target, of the build commands or of the
\* directory of another package: each lies in the directory of its package.
C29_PackagesWriteApart ==
    /\ (answer.op = "prepare_target" /\ answer.status = "ok" /\ subject.pkg = "foo")
          => /\ FingerprintWrites(answer.pairs) \cap WritesOfBar = {}
             /\ \A w \in FingerprintWrites(answer.pairs) : w.dir = "foo"
    /\ (answer.op = "prepare_init" /\ subject.pkg = "foo")
          => /\ answer.names[1] \notin WritesOfBar
             /\ answer.names[1].dir = "foo"
    /\ \A w \in WritesOfBar : w.dir = "bar"

\* prepare_target has given the promote list of the library named foo of
\* package foo, while package bar has a library of that name too.
C29_Witness ==
    /\ answer.op = "prepare_target" /\ answer.status = "ok"
    /\ subject.lib /\ subject.rlib /\ subject.profile = ProfCompile
    /\ Cardinality(FingerprintWrites(answer.pairs)) = 2
    /\ \E w \in WritesOfBar : \E v \in FingerprintWrites(answer.pairs) :
          w.file = v.file /\ w.lay = v.lay /\ w # v

\* Whether a pair is on the current DFS path: a frame of build_requirements
\* that has not returned was entered for it.
OnPath(key) == \E i \in 1..Len(stack) : PairOf(stack[i].target) = key

\* The call build_requirements makes next: the frame on top of the stack has
\* a dependency target left.
HasNextDep == stack # <<>> /\ Top.next <= Len(dep_targets(WalkCx, Top.pkg))

NextDep == dep_targets(WalkCx, Top.pkg)[Top.next]

\* C31: a call of build_requirements returns immediately exactly when its
\* (package, target name) pair is already on the current DFS path; a pair
\* whose package is on the path under another target name is visited.
C31_GuardKeyedOnPair ==
    [][CycleGuard <=> (HasNextDep /\ OnPath(PairOf(NextDep)))]_vars

\* The rule of the claim for a target under an env.
RelevantUnder(env, t) ==
    /\ t.lib
    /\ CASE env \in {"doc", "test"} -> t.profile.compile
         [] env = "doc-all" -> t.profile.compile \/ t.profile.doc
         [] OTHER -> t.profile.env = env

\* The targets a package declares that the rule holds for, by position.
RelevantAt(env, pkg) ==
    {i \in 1..Len(get_targets(pkg)) : RelevantUnder(env, get_targets(pkg)[i])}

\* The pairs the claim lists for the resolved dependencies `ds`: the
\* dependencies with a relevant target, in order, each with its first one.
ExpectedDepTargets(env, ds) ==
    LET kept == SelectSeq(ds, LAMBDA d : RelevantAt(env, d) # {})
    IN  [k \in 1..Len(kept) |->
            get_targets(kept[k])[CHOOSE i \in RelevantAt(env, kept[k]) :
                                    \A j \in RelevantAt(env, kept[k]) : i <= j]]

\* C32: dep_targets(pkg) yields, for each direct dependency in resolver
\* order, its first declared target that is_relevant_target holds for and
\* nothing for a dependency without one; is_relevant_target is false for a
\* target that is no library, and for a library follows the env: is_compile
\* under doc and test, is_compile or is_doc under doc-all, the env of the
\* profile equal to the env otherwise.
C32_DepTargetsFirstRelevant ==
    /\ (answer.op = "dep_targets" /\ answer.status = "ok")
          => answer.names =
                ExpectedDepTargets(probe.env,
                    IF subject.pkg \in DOMAIN probe.resolve
                    THEN probe.resolve[subject.pkg] ELSE <<>>)
    /\ answer.op = "is_relevant_target"
          => answer.names = <<RelevantUnder(probe.env, subject)>>

\* dep_targets was asked under doc-all for a package that depends on bar and
\* on foo: it passed over the first declared target of bar, a test, for its
\* library, and took the first of the two relevant targets of foo.
C32_Witness ==
    /\ answer.op = "dep_targets"
    /\ probe.env = "doc-all"
    /\ subject.pkg \in DOMAIN probe.resolve
    /\ probe.resolve[subject.pkg] = <<"bar", "foo">>
    /\ answer.names = <<BarLib, FooLib>>

\* The Layout of a Kind in the Context asked, and the area of its outputs.
LayoutOfKind == IF built = "KindPlugin" \/ ~probe.has_target THEN "host" ELSE "target"

OutputArea == IF probe.primary THEN "root" ELSE "deps"

\* The name of the fingerprint file of the target asked about, as the claim
\* words it.
FingerprintName ==
    <<CASE subject.profile.test -> "test-" [] subject.profile.doc -> "doc-" [] OTHER -> "",
      IF subject.lib THEN "lib" ELSE "bin", "-", subject.name>>

\* The promote list of the claim.
PromoteList ==
    LET fp(old) == Path(LayoutOfKind, old, "fingerprint", subject.pkg, FingerprintName)
        dep(old) == Path(LayoutOfKind, old, "fingerprint", subject.pkg,
                         <<"dep-">> \o FingerprintName)
        out(old, name) == Path(LayoutOfKind, old, OutputArea, "", name)
        names == target_filenames(probe, subject)
    IN  << <<fp(TRUE), fp(FALSE)>> >>
        \o (IF subject.profile.doc THEN <<>>
            ELSE << <<dep(TRUE), dep(FALSE)>> >>
                 \o [i \in 1..Len(names) |-> <<out(TRUE, names[i]), out(FALSE, names[i])>>])

\* C33: the promote list of prepare_target is the pair of the fingerprint
\* file, then, unless the target is doc, the pair of the dep-info and a pair
\* per name of target_filenames in order; every source is in the old and
\* every destination in the new layout of the Kind; the fingerprint file is
\* named <flavor><lib|bin>-<name>, test- before doc- before no flavor, and
\* the dep-info dep-<that name>.
C33_PromoteList ==
    (answer.op = "prepare_target" /\ answer.status = "ok")
        => /\ answer.pairs = PromoteList
           /\ \A i \in 1..Len(answer.pairs) :
                 /\ answer.pairs[i][1].old /\ ~answer.pairs[i][2].old
                 /\ answer.pairs[i][1].lay = LayoutOfKind
                 /\ answer.pairs[i][2].lay = LayoutOfKind

\* prepare_target returned the list of a plugin library with two crate types
\* in a Context with a target layout: four pairs, in the host layout.
C33_Witness ==
    /\ answer.op = "prepare_target"
    /\ answer.status = "ok"
    /\ probe.has_target
    /\ built = "KindPlugin"
    /\ subject.dylib /\ subject.rlib /\ ~subject.profile.test /\ ~subject.profile.doc
    /\ Len(answer.pairs) = 4
    /\ answer.pairs[4][1].file = <<"lib", "foo", ".rlib">>

\* The number of pairs move_old has renamed in its first run.
Renamed ==
    IF call.pc = "done" /\ call.status = "ok" THEN Len(call.unit.pairs) ELSE call.i - 1

\* What a path held when the unit started, Nothing for a path that did not
\* exist; and what it holds now.
Nothing == [kind |-> "nothing", content |-> [tag |-> "nothing"], mtime |-> 0]

HeldBefore(path) == IF path \in DOMAIN call.before THEN call.before[path] ELSE Nothing

HeldNow(path) == IF exists(path) THEN fs[path] ELSE Nothing

\* C34: move_old renames its pairs in list order and stops at the first
\* rename that fails, returning the error: the pairs before the failing one
\* stay renamed, the failing one and the pairs after it are untouched.
C34_PromoteStopsAtFirstFailure ==
    (call.op = "move_old" /\ call.run = 1)
        => LET pairs == call.unit.pairs IN
           /\ \A k \in 1..Len(pairs) :
                 IF k <= Renamed
                 THEN /\ HeldNow(pairs[k][1]) = Nothing
                      /\ HeldBefore(pairs[k][1]) # Nothing
                      /\ HeldNow(pairs[k][2]) = HeldBefore(pairs[k][1])
                 ELSE /\ HeldNow(pairs[k][1]) = HeldBefore(pairs[k][1])
                      /\ HeldNow(pairs[k][2]) = HeldBefore(pairs[k][2])
           /\ (call.pc = "done" /\ call.status = "ok") => Renamed = Len(pairs)
           /\ (call.pc = "done" /\ call.status # "ok")
                 => /\ call.status = "err"
                    /\ \/ HeldNow(pairs[call.i][1]) = Nothing
                       \/ ~exists(NewFpDir)

\* move_old renamed the fingerprint file and failed on the dep-info file,
\* which was missing; the outputs are still in the old layout.
C34_Witness ==
    /\ call.op = "move_old"
    /\ call.run = 1
    /\ call.pc = "done"
    /\ call.status = "err"
    /\ call.i = 2
    /\ exists(LibNewFp)
    /\ ~exists(LibOldFp)
    /\ exists(call.unit.pairs[3][1])

\* The Layout of KindTarget in the Context asked.
TargetPlatformLayout == IF probe.has_target THEN "target" ELSE "host"

\* The hash of (rustc_version, source fingerprint of bar), as hex.
BuildFingerprint ==
    [tag |-> "fp", ver |-> probe.rustc_version,
     data |-> [target |-> NoTarget,
               srcfp |-> <<stat_source("bar", Manifest), stat_source("bar", "src/lib.rs"),
                           stat_source("bar", "src/tests.rs")>>]]

\* Whether a path holds a readable file with the given content.
FileWith(path, content) ==
    /\ path \in DOMAIN fs
    /\ fs[path].kind = "file"
    /\ fs[path].content = content

\* C35: for a package with build commands prepare_build_cmd works in the
\* layout of KindTarget whatever the requirement of the package, its
\* fingerprint is the hash of (rustc_version, source fingerprint of the
\* package), it returns Fresh exactly when the old build file holds that
\* fingerprint, hence Dirty when a file of the package was edited since the
\* file was written, and the Err of the source's fingerprint() is returned
\* without a Preparation.
C35_BuildCmdFingerprint ==
    (answer.op = "prepare_build_cmd" /\ "bar" \in probe.sources)
        => /\ "bar" \in probe.broken
                 => answer.status = "err" /\ answer.prep = Failed("err")
           /\ "bar" \notin probe.broken => answer.status \in {"ok", "err"}
           /\ answer.status = "ok"
                 => /\ answer.prep.fingerprint = BuildFingerprint
                    /\ answer.prep.loc
                          = Path(TargetPlatformLayout, FALSE, "fingerprint", "bar", <<"build">>)
                    /\ \A i \in 1..Len(answer.pairs) :
                          /\ answer.pairs[i][1].lay = TargetPlatformLayout
                          /\ answer.pairs[i][2].lay = TargetPlatformLayout
                    /\ answer.prep.fresh = "Fresh"
                          <=> FileWith(OldBuildFile(TargetPlatformLayout), BuildFingerprint)
                    /\ (\E f \in {Manifest, "src/lib.rs"} : stat_source("bar", f) > 0)
                          => answer.prep.fresh = "Dirty"

\* prepare_build_cmd returned Fresh for bar, required as a plugin, from the
\* build file of the target layout.
C35_Witness ==
    /\ answer.op = "prepare_build_cmd"
    /\ answer.status = "ok"
    /\ probe.has_target
    /\ <<"bar", "bar">> \in DOMAIN requirements
    /\ requirements[<<"bar", "bar">>] = "Plugin"
    /\ answer.prep.fresh = "Fresh"
    /\ OldBuildFile("host") \in DOMAIN fs

\* Whether the artifacts promoted for the library of foo were compiled from
\* the current content of every input of the target.
CompiledFromCurrent ==
    LET outs == output_pairs(UnitCx("foo"), FooLib, "KindTarget")
    IN  \A i \in 1..Len(outs) :
           /\ outs[i][1] \in DOMAIN fs
           /\ fs[outs[i][1]].kind = "file"
           /\ fs[outs[i][1]].content.tag = "artifact"
           /\ fs[outs[i][1]].content.inputs
                 = [k \in 1..Len(CompilerInputs(FooLib)) |->
                       stat_source("foo", CompilerInputs(FooLib)[k])]

\* C36: a non-doc target is reported Fresh only if the artifact to promote
\* was compiled from the current content of every input of its dep-info,
\* also when an input was edited while the compiler ran, after the compiler
\* read it and before the dep-info file was written.
C36_FreshMeansCompiledFromCurrent ==
    (call.op = "prepare_target" /\ call.target = FooLib /\ call.status = "ok"
        /\ call.unit.fresh = "Fresh")
        => CompiledFromCurrent

\* C37: the Freshness prepare_target returns for a target depends on the
\* compiler version, the target, the source fingerprint of its own package
\* (doc), the old fingerprint file and the inputs of the old dep-info only:
\* two calls between which only sources, fingerprints or artifacts of the
\* dependency packages changed return the same.
C37_FreshnessIgnoresDependencies ==
    (call.op = "prepare_target" /\ call.pc = "again")
        => call.verdict = Outcome(call.unit)

\* prepare_target returned Fresh for the library of foo before and after a
\* source file of bar was written.
C37_Witness ==
    /\ call.op = "prepare_target"
    /\ call.pc = "again"
    /\ call.target = FooLib
    /\ call.i >= 1
    /\ stat_source("bar", "src/lib.rs") > 2
    /\ call.verdict = "Fresh"

\* What tells the fingerprint files of two targets apart: the flavor, the
\* kind and the name.
NameKey(t) ==
    <<CASE t.profile.test -> "test-" [] t.profile.doc -> "doc-" [] OTHER -> "", t.lib, t.name>>

\* The targets a package may hold next to the one asked about.
Siblings == NamedSubjects \cup {subject}

\* C38: in the fingerprint directory of a package the fingerprint files of
\* two targets that differ in flavor, kind or name have different names, no
\* fingerprint file has the name of a dep-info file, and neither has the
\* name of the build fingerprint file.
C38_NoNameCollision ==
    answer.op = "filename"
        => /\ \A t \in Siblings :
                 /\ NameKey(t) # NameKey(subject)
                       => format(filename(t)) # answer.names[1]
                 /\ format(<<"dep-">> \o filename(t)) # answer.names[1]
                 /\ format(filename(t)) # answer.names[2]
           /\ answer.names[1] # answer.names[3]
           /\ answer.names[2] # answer.names[3]
           /\ answer.names[3] = <<"b", "u", "i", "l", "d">>

\* The names were formatted for the test of the library a, next to a library
\* named test-a.
C38_Witness ==
    /\ answer.op = "filename"
    /\ subject.name = "a"
    /\ subject.lib
    /\ subject.profile.test
    /\ answer.names[1] = <<"t", "e", "s", "t", "-", "l", "i", "b", "-", "a">>
    /\ \E t \in Siblings : t.name = "test-a" /\ t.lib /\ ~t.profile.test /\ ~t.profile.doc

\* C39: a successful copy_to(rev, dest) leaves the checkout with HEAD at rev
\* and its submodules initialised and updated for rev, after a fresh clone
\* and over an older checkout.
C39_CopyToUpdatesSubmodules ==
    (git.op = "copy_to" /\ git.pc = "done" /\ git.status = "ok")
        => /\ git.co = "repo"
           /\ git.head = git.rev
           /\ git.subs = git.rev

\* C40: a checkout(into) that follows a failed clone clones again and does
\* not fetch in a directory that is no repository, so that it succeeds when
\* the remote is reachable; on a database that is a repository checkout
\* fetches and does not clone.
C40_FailedCloneNotPoisoning ==
    (git.op = "checkout" /\ git.pc = "done")
        => /\ git.was # "repo" => git.path = "clone"
           /\ git.was = "repo" => git.path = "fetch"
           /\ git.reachable => git.status = "ok" /\ git.db = "repo"

====
